---- MODULE Spec2Model ----
(***************************************************************************)
(* Model of the cdk-constructs-library factory functions (Aurora, Route 53,*)
(* CodeArtifact) and of the configuration layer of its examples.           *)
(*                                                                         *)
(* JavaScript strings are TLC strings (sequences of one-character          *)
(* strings: Len, \o and SubSeq apply to them).  A JavaScript object is a   *)
(* record; an optional property that the caller did not supply is a field  *)
(* that is not in the record's DOMAIN.  A construct scope (a Stack) is the *)
(* sequence of the constructs added to it, in creation order.  The         *)
(* configuration object that the caller hands to a factory is passed by    *)
(* reference: heldProps is that object as the call leaves it, call.props   *)
(* is the object as it was handed over.                                    *)
(*                                                                         *)
(* Spec is the specification of the factory calls; ConfigSpec is the       *)
(* specification of the account resolver and of the ConfigResolver         *)
(* classes, whose static fields live as long as the process.               *)
(***************************************************************************)
EXTENDS Integers, Sequences, FiniteSets, TLC

VARIABLES scope, call, outcome, heldProps,
          environmentsLocal, localConfig, localConfigLoaded, baseConfigs

vars == <<scope, call, outcome, heldProps,
          environmentsLocal, localConfig, localConfigLoaded, baseConfigs>>

\* the state of the example configuration layer
configVars == <<environmentsLocal, localConfig, localConfigLoaded, baseConfigs>>

----------------------------------------------------------------------------
(* Bounds of the input domains.                                            *)

MaxSuffixLen == 3

MaxTailLen == 2

MaxCidrs == 2

MaxReaders == 3

MaxSubnetIds == 3

MonitoringSeconds == {0, 30}

MaxIpAddressCount == 11

MaxPrivateSubnets == 11

----------------------------------------------------------------------------
(* String primitives of the JavaScript runtime.                            *)

Has(obj, field) == field \in DOMAIN obj

CharAt(s, i) == SubSeq(s, i, i)

Digits == {"0", "1", "2", "3", "4", "5", "6", "7", "8", "9"}

IsDigit(c) == c \in Digits

DigitValue(c) ==
    CASE c = "0" -> 0 [] c = "1" -> 1 [] c = "2" -> 2 [] c = "3" -> 3
      [] c = "4" -> 4 [] c = "5" -> 5 [] c = "6" -> 6 [] c = "7" -> 7
      [] c = "8" -> 8 [] c = "9" -> 9

DigitChar(d) ==
    CASE d = 0 -> "0" [] d = 1 -> "1" [] d = 2 -> "2" [] d = 3 -> "3"
      [] d = 4 -> "4" [] d = 5 -> "5" [] d = 6 -> "6" [] d = 7 -> "7"
      [] d = 8 -> "8" [] d = 9 -> "9"

AllDigits(s) == \A i \in 1..Len(s) : IsDigit(CharAt(s, i))

\* String.prototype.includes(sub)
Includes(s, sub) ==
    \E i \in 1..(Len(s) - Len(sub) + 1) : SubSeq(s, i, i + Len(sub) - 1) = sub

\* parseInt(s, 10) of a non-empty run of decimal digits
RECURSIVE ParseInt(_)
ParseInt(s) ==
    IF Len(s) = 0 THEN 0
    ELSE 10 * ParseInt(SubSeq(s, 1, Len(s) - 1)) + DigitValue(CharAt(s, Len(s)))

\* `${n}` of a non-negative integer
RECURSIVE NumberToString(_)
NumberToString(n) ==
    IF n < 10 THEN DigitChar(n)
    ELSE NumberToString(n \div 10) \o DigitChar(n % 10)

\* s.replace(/\./, '-'): without the g flag only the first dot is replaced
RECURSIVE ReplaceFirstDot(_)
ReplaceFirstDot(s) ==
    IF Len(s) = 0 THEN ""
    ELSE IF CharAt(s, 1) = "." THEN "-" \o SubSeq(s, 2, Len(s))
    ELSE CharAt(s, 1) \o ReplaceFirstDot(SubSeq(s, 2, Len(s)))

\* s.replace(/\./g, '-')
RECURSIVE ReplaceDots(_)
ReplaceDots(s) ==
    IF Len(s) = 0 THEN ""
    ELSE (IF CharAt(s, 1) = "." THEN "-" ELSE CharAt(s, 1))
             \o ReplaceDots(SubSeq(s, 2, Len(s)))

\* length of the longest run of decimal digits of s that starts at index i
RECURSIVE DigitRun(_, _)
DigitRun(s, i) ==
    IF i > Len(s) \/ ~IsDigit(CharAt(s, i)) THEN 0 ELSE 1 + DigitRun(s, i + 1)

\* every string over alphabet of length at most n
RECURSIVE StringsUpTo(_, _)
StringsUpTo(alphabet, n) ==
    IF n = 0 THEN {""}
    ELSE LET shorter == StringsUpTo(alphabet, n - 1)
         IN  shorter \cup {s \o c : s \in shorter, c \in alphabet}

----------------------------------------------------------------------------
(* aurora-helpers.ts: validateCidr                                         *)

\* cidr.match(/\/(\d+)$/): <<>> when there is no match, else <<group 1>>
PrefixMatch(cidr) ==
    LET starts == {i \in 1..Len(cidr) :
                      /\ CharAt(cidr, i) = "/"
                      /\ i < Len(cidr)
                      /\ AllDigits(SubSeq(cidr, i + 1, Len(cidr)))}
    IN  IF starts = {} THEN <<>>
        ELSE LET first == CHOOSE i \in starts : \A j \in starts : i <= j
             IN  <<SubSeq(cidr, first + 1, Len(cidr))>>

OpenCidrMessage ==
    "Security violation: CIDR 0.0.0.0/0 (open to the internet) is not allowed for RDS security groups"

PrefixMessage(cidr, prefix) ==
    "Security violation: CIDR " \o cidr \o " has prefix /" \o NumberToString(prefix)
        \o " which is less restrictive than /16. Only /16 or more restrictive (higher number) CIDRs are allowed."

Returned == [threw |-> FALSE, message |-> ""]

Thrown(message) == [threw |-> TRUE, message |-> message]

\* validateCidr with the two rules in the opposite order
validateCidrPrefixFirst(cidr) ==
    LET prefixMatch == PrefixMatch(cidr)
    IN  IF prefixMatch # <<>> /\ ParseInt(prefixMatch[1]) < 16
        THEN Thrown(PrefixMessage(cidr, ParseInt(prefixMatch[1])))
        ELSE IF cidr = "0.0.0.0/0" THEN Thrown(OpenCidrMessage)
        ELSE Returned

\* validateCidr that also rejects a /16
validateCidrOffByOne(cidr) ==
    IF cidr = "0.0.0.0/0" THEN Thrown(OpenCidrMessage)
    ELSE LET prefixMatch == PrefixMatch(cidr)
         IN  IF prefixMatch # <<>> /\ ParseInt(prefixMatch[1]) <= 16
             THEN Thrown(PrefixMessage(cidr, ParseInt(prefixMatch[1])))
             ELSE Returned

validateCidr(cidr) ==
    IF cidr = "0.0.0.0/0" THEN Thrown(OpenCidrMessage)
    ELSE LET prefixMatch == PrefixMatch(cidr)
         IN  IF prefixMatch # <<>> /\ ParseInt(prefixMatch[1]) < 16
             THEN Thrown(PrefixMessage(cidr, ParseInt(prefixMatch[1])))
             ELSE Returned

----------------------------------------------------------------------------
(* aurora-helpers.ts: getEngineVersion, getEngineFamily                    *)

\* engine.engineVersion?.fullVersion?.match(/^(\d+)\.(\d+)/):
\* <<>> when the chain is undefined or there is no match, else <<group 1, group 2>>
VersionMatch(engine) ==
    IF ~Has(engine, "engineVersion") THEN <<>>
    ELSE IF ~Has(engine.engineVersion, "fullVersion") THEN <<>>
    ELSE LET full  == engine.engineVersion.fullVersion
             major == DigitRun(full, 1)
             minor == DigitRun(full, major + 2)
         IN  IF /\ major > 0
                /\ major + 1 <= Len(full)
                /\ CharAt(full, major + 1) = "."
                /\ minor > 0
             THEN <<SubSeq(full, 1, major), SubSeq(full, major + 2, major + 1 + minor)>>
             ELSE <<>>

\* getEngineVersion that falls back to the version string itself
getEngineVersionVerbatimFallback(engine) ==
    LET versionMatch == VersionMatch(engine)
    IN  IF versionMatch # <<>> THEN versionMatch[1] \o "-" \o versionMatch[2]
        ELSE IF Has(engine, "engineVersion") /\ Has(engine.engineVersion, "fullVersion")
             THEN engine.engineVersion.fullVersion
        ELSE "unknown"

\* getEngineVersion that reads the two groups as numbers
getEngineVersionNumeric(engine) ==
    LET versionMatch == VersionMatch(engine)
    IN  IF versionMatch # <<>>
        THEN NumberToString(ParseInt(versionMatch[1])) \o "-" \o NumberToString(ParseInt(versionMatch[2]))
        ELSE "unknown"

getEngineVersion(engine) ==
    LET versionMatch == VersionMatch(engine)
    IN  IF versionMatch # <<>> THEN versionMatch[1] \o "-" \o versionMatch[2]
        ELSE "unknown"

\* getEngineFamily that has no pass-through for an unrecognized engine type
getEngineFamilyNoPassThrough(engine) ==
    LET engineType == IF Has(engine, "engineType") THEN engine.engineType ELSE ""
    IN  IF Includes(engineType, "aurora-mysql") THEN "aurora-mysql"
        ELSE IF Includes(engineType, "aurora-postgresql") \/ Includes(engineType, "aurora-postgres")
             THEN "aurora-postgresql"
        ELSE ""

getEngineFamily(engine) ==
    LET engineType == IF Has(engine, "engineType") THEN engine.engineType ELSE ""
    IN  IF Includes(engineType, "aurora-mysql") THEN "aurora-mysql"
        ELSE IF Includes(engineType, "aurora-postgresql") \/ Includes(engineType, "aurora-postgres")
             THEN "aurora-postgresql"
        ELSE engineType

----------------------------------------------------------------------------
(* Construct scope.                                                        *)

\* new X(scope, id, props): the construct becomes the last child of scope
AddConstruct(scopeIn, construct) == Append(scopeIn, construct)

Opt(present, fields) == IF present THEN fields ELSE <<>>

\* a || b on strings: the empty string is falsy
OrElse(obj, field, default) ==
    IF Has(obj, field) /\ obj[field] # "" THEN obj[field] ELSE default

\* props.clusterParameters / props.instanceParameters read through ?.
ParameterConfig(props, field) == IF Has(props, field) THEN props[field] ELSE <<>>

----------------------------------------------------------------------------
(* vpc-helpers.ts                                                          *)

\* the VPC that the lookup context holds for vpcId
LookedUpVpc(vpcId) ==
    [vpcId |-> vpcId,
     vpcCidrBlock |-> "10.0.0.0/16",
     privateSubnets |-> <<[subnetId |-> "subnet-1", availabilityZone |-> "us-east-1a"],
                          [subnetId |-> "subnet-2", availabilityZone |-> "us-east-1b"]>>,
     publicSubnets |-> <<[subnetId |-> "subnet-9", availabilityZone |-> "us-east-1a"]>>]

getVpc(scopeIn, id, vpcId) ==
    LET vpc == LookedUpVpc(vpcId)
    IN  [scope |-> AddConstruct(scopeIn, [kind |-> "Vpc", id |-> id, vpcId |-> vpcId]),
         value |-> vpc]

\* a selection that filters the public subnets of the VPC as well
selectSubnetsByIdsAnySubnet(vpc, subnetIds) ==
    [subnets |-> SelectSeq(vpc.privateSubnets \o vpc.publicSubnets,
                           LAMBDA subnet : \E i \in 1..Len(subnetIds) : subnetIds[i] = subnet.subnetId)]

\* subnets.filter(subnet => subnetIds.includes(subnet.subnetId))
selectSubnetsByIds(vpc, subnetIds) ==
    [subnets |-> SelectSeq(vpc.privateSubnets,
                           LAMBDA subnet : \E i \in 1..Len(subnetIds) : subnetIds[i] = subnet.subnetId)]

----------------------------------------------------------------------------
(* aurora-helpers.ts: parameter groups                                     *)

ParameterGroupEngine(props, field) ==
    IF Has(ParameterConfig(props, field), "engine")
    THEN ParameterConfig(props, field).engine
    ELSE props.engine

\* a parameter group that is always given the derived name
NewParameterGroupDerivedName(scopeIn, props, field, segment, idSegment, label) ==
    LET config         == ParameterConfig(props, field)
        engine         == ParameterGroupEngine(props, field)
        engineFamily   == getEngineFamily(engine)
        engineVersion  == getEngineVersion(engine)
        paramGroupName == props.clusterName \o segment \o engineFamily \o "-" \o engineVersion
        description    == OrElse(config, "description",
                              label \o " parameter group for " \o props.clusterName
                                    \o " (" \o engineFamily \o " " \o engineVersion \o ")")
        id             == props.clusterName \o idSegment \o engineFamily \o "-" \o engineVersion
        group          == [kind |-> "ParameterGroup",
                           id |-> id,
                           engine |-> engine,
                           name |-> ReplaceDots(paramGroupName),
                           parameters |-> IF Has(config, "parameters") THEN config.parameters ELSE <<>>,
                           description |-> description]
    IN  [scope |-> AddConstruct(scopeIn, group), value |-> group]

NewParameterGroup(scopeIn, props, field, segment, idSegment, label) ==
    LET config         == ParameterConfig(props, field)
        engine         == ParameterGroupEngine(props, field)
        engineFamily   == getEngineFamily(engine)
        engineVersion  == getEngineVersion(engine)
        paramGroupName == OrElse(config, "name",
                              props.clusterName \o segment \o engineFamily \o "-" \o engineVersion)
        description    == OrElse(config, "description",
                              label \o " parameter group for " \o props.clusterName
                                    \o " (" \o engineFamily \o " " \o engineVersion \o ")")
        id             == props.clusterName \o idSegment \o engineFamily \o "-" \o engineVersion
        group          == [kind |-> "ParameterGroup",
                           id |-> id,
                           engine |-> engine,
                           name |-> ReplaceDots(paramGroupName),
                           parameters |-> IF Has(config, "parameters") THEN config.parameters ELSE <<>>,
                           description |-> description]
    IN  [scope |-> AddConstruct(scopeIn, group), value |-> group]

createClusterParameterGroup(scopeIn, props) ==
    NewParameterGroup(scopeIn, props, "clusterParameters", "-cluster-", "-ClusterParams-", "Cluster")

createInstanceParameterGroup(scopeIn, props) ==
    NewParameterGroup(scopeIn, props, "instanceParameters", "-instance-", "-InstanceParams-", "Instance")

----------------------------------------------------------------------------
(* aurora-helpers.ts: createClusterReaders                                 *)

caCertificate == "rds-ca-rsa2048-g1"

\* createClusterReaders whose loop counts from 1
createClusterReadersOneBased(props, instanceParameterGroup) ==
    LET config      == ParameterConfig(props, "readersConfig")
        readerCount == IF Has(config, "readerInstanceCount") THEN config.readerInstanceCount ELSE 0
    IN  IF readerCount > 0 /\ Has(config, "instanceType")
        THEN [n \in 1..readerCount |->
                 [id |-> "reader" \o NumberToString(n),
                  instanceType |-> config.instanceType,
                  instanceIdentifier |-> props.clusterName \o "-reader-" \o NumberToString(n),
                  publiclyAccessible |-> FALSE,
                  allowMajorVersionUpgrade |-> FALSE,
                  caCertificate |-> caCertificate,
                  parameterGroup |-> instanceParameterGroup.id]]
        ELSE <<>>

createClusterReaders(props, instanceParameterGroup) ==
    LET config      == ParameterConfig(props, "readersConfig")
        readerCount == IF Has(config, "readerInstanceCount") THEN config.readerInstanceCount ELSE 0
    IN  IF readerCount > 0 /\ Has(config, "instanceType")
        THEN [n \in 1..readerCount |->
                 [id |-> "reader" \o NumberToString(n - 1),
                  instanceType |-> config.instanceType,
                  instanceIdentifier |-> props.clusterName \o "-reader-" \o NumberToString(n - 1),
                  publiclyAccessible |-> FALSE,
                  allowMajorVersionUpgrade |-> FALSE,
                  caCertificate |-> caCertificate,
                  parameterGroup |-> instanceParameterGroup.id]]
        ELSE <<>>

----------------------------------------------------------------------------
(* aurora-helpers.ts: createAuroraSecurityGroup                            *)

\* sg.addIngressRule(Peer.ipv4(cidr), Port.tcp(port), description)
addIngressRule(sg, cidr, port, description) ==
    [sg EXCEPT !.ingress = Append(@, [peer |-> cidr, port |-> port, description |-> description])]

\* a loop that validates only the first entry of the list
RECURSIVE ForEachCidrFirstChecked(_, _, _, _)
ForEachCidrFirstChecked(sg, cidrs, i, port) ==
    IF i > Len(cidrs) THEN [sg |-> sg, threw |-> FALSE, message |-> ""]
    ELSE IF i = 1 /\ validateCidr(cidrs[i]).threw
         THEN [sg |-> sg, threw |-> TRUE, message |-> validateCidr(cidrs[i]).message]
    ELSE ForEachCidrFirstChecked(
             addIngressRule(sg, cidrs[i], port, "Allow Aurora traffic from " \o cidrs[i]),
             cidrs, i + 1, port)

\* a loop that adds the rule of the last entry without validating it
RECURSIVE ForEachCidrLastUnchecked(_, _, _, _)
ForEachCidrLastUnchecked(sg, cidrs, i, port) ==
    IF i > Len(cidrs) THEN [sg |-> sg, threw |-> FALSE, message |-> ""]
    ELSE IF i < Len(cidrs) /\ validateCidr(cidrs[i]).threw
         THEN [sg |-> sg, threw |-> TRUE, message |-> validateCidr(cidrs[i]).message]
    ELSE ForEachCidrLastUnchecked(
             addIngressRule(sg, cidrs[i], port, "Allow Aurora traffic from " \o cidrs[i]),
             cidrs, i + 1, port)

\* props.allowedInboundCidrs.forEach(cidr => {validateCidr(cidr); sg.addIngressRule(...)}),
\* from entry i on; the first entry that fails validation ends the loop
RECURSIVE ForEachCidr(_, _, _, _)
ForEachCidr(sg, cidrs, i, port) ==
    IF i > Len(cidrs) THEN [sg |-> sg, threw |-> FALSE, message |-> ""]
    ELSE LET checked == validateCidr(cidrs[i])
         IN  IF checked.threw THEN [sg |-> sg, threw |-> TRUE, message |-> checked.message]
             ELSE ForEachCidr(addIngressRule(sg, cidrs[i], port, "Allow Aurora traffic from " \o cidrs[i]),
                              cidrs, i + 1, port)

createAuroraSecurityGroup(scopeIn, id, vpc, port, props) ==
    LET created == [kind |-> "SecurityGroup",
                    id |-> id,
                    vpcId |-> vpc.vpcId,
                    allowAllOutbound |-> TRUE,
                    securityGroupName |-> props.clusterName \o "-rds-sg",
                    description |-> "Security group for " \o props.clusterName \o " Aurora cluster",
                    ingress |-> <<>>]
        withVpc == addIngressRule(created, vpc.vpcCidrBlock, port,
                                  "Allow Aurora traffic from VPC " \o vpc.vpcCidrBlock)
        cidrs   == IF Has(props, "allowedInboundCidrs") THEN props.allowedInboundCidrs ELSE <<>>
        looped  == ForEachCidr(withVpc, cidrs, 1, port)
        sg      == IF looped.threw THEN looped.sg
                   ELSE looped.sg @@ [removalPolicy |-> "DESTROY"]
    IN  [scope |-> AddConstruct(scopeIn, sg),
         threw |-> looped.threw,
         message |-> looped.message]
            @@ Opt(~looped.threw, [value |-> sg])

----------------------------------------------------------------------------
(* kms-helpers.ts: createAuroraKmsKey                                      *)

createAuroraKmsKey(scopeIn, id, config) ==
    LET key == [kind |-> "Key",
                id |-> id,
                alias |-> "alias/" \o config.clusterName \o "-aurora-key",
                description |-> OrElse(config, "description",
                                       "KMS key for " \o config.clusterName \o " Aurora cluster"),
                enableKeyRotation |-> IF Has(config, "enableKeyRotation")
                                      THEN config.enableKeyRotation ELSE TRUE,
                removalPolicy |-> OrElse(config, "removalPolicy", "RETAIN"),
                pendingWindowDays |-> IF Has(config, "pendingWindowDays") /\ config.pendingWindowDays # 0
                                      THEN config.pendingWindowDays ELSE 30]
    IN  [scope |-> AddConstruct(scopeIn, key), value |-> key]

----------------------------------------------------------------------------
(* aurora-mysql-cluster.ts: createAuroraMySqlCluster                       *)

\* Each step of the factory body is an operator that receives the values of
\* the preceding steps (the const declarations of the source) as arguments.

\* a secret that is always given the default name
NewSecretDefaultName(props) ==
    [kind |-> "Secret",
     id |-> props.clusterName \o "-secret",
     secretName |-> props.clusterName \o "-credentials",
     description |-> "Database credentials for " \o props.clusterName,
     generateSecretString |-> [secretStringTemplate |-> "{\"username\":\"admin\"}",
                               generateStringKey |-> "password",
                               excludePunctuation |-> TRUE,
                               passwordLength |-> 32]]

NewSecret(props) ==
    [kind |-> "Secret",
     id |-> props.clusterName \o "-secret",
     secretName |-> OrElse(props, "secretName", props.clusterName \o "-credentials"),
     description |-> "Database credentials for " \o props.clusterName,
     generateSecretString |-> [secretStringTemplate |-> "{\"username\":\"admin\"}",
                               generateStringKey |-> "password",
                               excludePunctuation |-> TRUE,
                               passwordLength |-> 32]]

\* const secret = props.existingSecret || new Secret(...)
SecretStep(scopeIn, props) ==
    IF Has(props, "existingSecret")
    THEN [scope |-> scopeIn, value |-> props.existingSecret]
    ELSE [scope |-> AddConstruct(scopeIn, NewSecret(props)), value |-> NewSecret(props)]

\* a step that creates a key whenever createKmsKey is true
KmsStepWheneverRequested(scopeIn, props) ==
    IF Has(props, "createKmsKey") /\ props.createKmsKey
    THEN createAuroraKmsKey(scopeIn, props.clusterName \o "-kms", [clusterName |-> props.clusterName])
    ELSE [scope |-> scopeIn]
             @@ Opt(Has(props, "storageEncryptionKey"), [value |-> props.storageEncryptionKey])

\* const kmsKey = props.createKmsKey && !props.storageEncryptionKey ? createAuroraKmsKey(...) : ...
KmsStep(scopeIn, props) ==
    IF Has(props, "createKmsKey") /\ props.createKmsKey /\ ~Has(props, "storageEncryptionKey")
    THEN createAuroraKmsKey(scopeIn, props.clusterName \o "-kms", [clusterName |-> props.clusterName])
    ELSE [scope |-> scopeIn]
             @@ Opt(Has(props, "storageEncryptionKey"), [value |-> props.storageEncryptionKey])

\* Duration.seconds(n): an object, truthy whatever n is
DurationSeconds(n) == [seconds |-> n]

EnhancedMonitoring(props) ==
    Has(props, "enableClusterLevelEnhancedMonitoring") /\ props.enableClusterLevelEnhancedMonitoring

\* props.iamAuthentication || true
IamAuthenticationOrTrue(props) == TRUE

\* props.iamAuthentication !== undefined ? props.iamAuthentication : true
IamAuthentication(props) ==
    IF Has(props, "iamAuthentication") THEN props.iamAuthentication ELSE TRUE

\* the retention set for every mode that the caller names
PerformanceInsightRetentionAnyMode(props) ==
    Opt(Has(props, "databaseInsightsMode"), [performanceInsightRetention |-> "MONTHS_15"])

\* performanceInsightRetention: ADVANCED ? MONTHS_15 : undefined
PerformanceInsightRetention(props) ==
    Opt(Has(props, "databaseInsightsMode") /\ props.databaseInsightsMode = "advanced",
        [performanceInsightRetention |-> "MONTHS_15"])

\* the interval set whether or not enhanced monitoring is enabled
MonitoringIntervalUnconditional(props) ==
    [monitoringInterval |-> IF Has(props, "monitoringInterval")
                            THEN props.monitoringInterval ELSE DurationSeconds(60)]

\* monitoringInterval: enabled ? props.monitoringInterval || Duration.seconds(60) : undefined
MonitoringInterval(props) ==
    Opt(EnhancedMonitoring(props),
        [monitoringInterval |-> IF Has(props, "monitoringInterval")
                                THEN props.monitoringInterval ELSE DurationSeconds(60)])

CommonClusterConfig(props, vpc, securityGroup, clusterParameterGroup, instanceParameterGroup, kmsStep) ==
    [engine |-> props.engine,
     clusterIdentifier |-> props.clusterName,
     vpc |-> vpc.vpcId,
     vpcSubnets |-> selectSubnetsByIds(vpc, props.subnetIds),
     securityGroups |-> <<securityGroup.id>>,
     writer |-> [id |-> "writer",
                 instanceIdentifier |-> props.clusterName \o "-writer",
                 allowMajorVersionUpgrade |-> FALSE,
                 parameterGroup |-> instanceParameterGroup.id,
                 caCertificate |-> caCertificate,
                 publiclyAccessible |-> FALSE,
                 instanceType |-> props.writerInstanceType],
     readers |-> createClusterReaders(props, instanceParameterGroup),
     storageEncrypted |-> TRUE,
     parameterGroup |-> clusterParameterGroup.id,
     iamAuthentication |-> IamAuthentication(props),
     removalPolicy |-> OrElse(props, "removalPolicy", "SNAPSHOT"),
     deletionProtection |-> Has(props, "deletionProtection") /\ props.deletionProtection,
     databaseInsightsMode |-> OrElse(props, "databaseInsightsMode", "standard"),
     cloudwatchLogsExports |-> IF Has(props, "cloudwatchLogsExports")
                               THEN props.cloudwatchLogsExports ELSE <<>>,
     enableClusterLevelEnhancedMonitoring |-> EnhancedMonitoring(props)]
      @@ Opt(Has(kmsStep, "value"), [storageEncryptionKey |-> kmsStep.value])
      @@ PerformanceInsightRetention(props)
      @@ MonitoringInterval(props)
      @@ Opt(Has(props, "s3ImportRole"), [s3ImportRole |-> props.s3ImportRole])
      @@ Opt(Has(props, "s3ImportBuckets"), [s3ImportBuckets |-> props.s3ImportBuckets])
      @@ Opt(Has(props, "s3ExportRole"), [s3ExportRole |-> props.s3ExportRole])
      @@ Opt(Has(props, "s3ExportBuckets"), [s3ExportBuckets |-> props.s3ExportBuckets])

\* Credentials.fromSecret(secret)
CredentialsFromSecret(secret) == [secret |-> secret]

\* SnapshotCredentials.fromGeneratedSecret(username): a password that the cluster
\* generates into a secret of its own
SnapshotCredentialsFromGeneratedSecret(username) ==
    [generatePassword |-> TRUE, username |-> username]

\* SnapshotCredentials.fromSecret(secret)
SnapshotCredentialsFromSecret(secret) == [generatePassword |-> FALSE, secret |-> secret]

\* a factory that never restores from a snapshot
NewClusterAlwaysFresh(props, commonClusterConfig, secret) ==
    [kind |-> "DatabaseCluster",
     id |-> props.clusterName,
     credentials |-> CredentialsFromSecret(secret)]
        @@ commonClusterConfig

\* const cluster = props.snapshotIdentifier ? new DatabaseClusterFromSnapshot(...) : new DatabaseCluster(...)
NewCluster(props, commonClusterConfig, secret) ==
    IF Has(props, "snapshotIdentifier") /\ props.snapshotIdentifier # ""
    THEN [kind |-> "DatabaseClusterFromSnapshot",
          id |-> props.clusterName,
          snapshotIdentifier |-> props.snapshotIdentifier,
          snapshotCredentials |-> IF Has(props, "snapshotCredentials")
                                  THEN props.snapshotCredentials
                                  ELSE SnapshotCredentialsFromGeneratedSecret("admin")]
             @@ commonClusterConfig
    ELSE [kind |-> "DatabaseCluster",
          id |-> props.clusterName,
          credentials |-> CredentialsFromSecret(secret)]
             @@ commonClusterConfig

\* return {cluster, secret}
ReturnCluster(scopeIn, cluster, secret) ==
    [scope |-> AddConstruct(scopeIn, cluster),
     threw |-> FALSE,
     message |-> "",
     value |-> [cluster |-> cluster, secret |-> secret]]

AfterKmsKey(props, vpc, clusterGroup, instanceGroup, securityGroup, secret, kmsStep) ==
    ReturnCluster(kmsStep.scope,
                  NewCluster(props,
                             CommonClusterConfig(props, vpc, securityGroup, clusterGroup,
                                                 instanceGroup, kmsStep),
                             secret),
                  secret)

AfterSecret(props, vpc, clusterGroup, instanceGroup, securityGroup, secretStep) ==
    AfterKmsKey(props, vpc, clusterGroup, instanceGroup, securityGroup, secretStep.value,
                KmsStep(secretStep.scope, props))

\* an error thrown by createAuroraSecurityGroup ends the factory call
AfterSecurityGroup(props, vpc, clusterGroup, instanceGroup, sgStep) ==
    IF sgStep.threw
    THEN [scope |-> sgStep.scope, threw |-> TRUE, message |-> sgStep.message]
    ELSE AfterSecret(props, vpc, clusterGroup, instanceGroup, sgStep.value,
                     SecretStep(sgStep.scope, props))

AfterInstanceGroup(props, port, vpc, clusterGroup, instanceGroupStep) ==
    AfterSecurityGroup(props, vpc, clusterGroup, instanceGroupStep.value,
                       createAuroraSecurityGroup(instanceGroupStep.scope,
                                                 props.clusterName \o "-sg", vpc, port, props))

AfterClusterGroup(props, port, vpc, clusterGroupStep) ==
    AfterInstanceGroup(props, port, vpc, clusterGroupStep.value,
                       createInstanceParameterGroup(clusterGroupStep.scope, props))

AfterVpc(props, port, vpcStep) ==
    AfterClusterGroup(props, port, vpcStep.value,
                      createClusterParameterGroup(vpcStep.scope, props))

\* the factory body; port is the database port handed to the security group
AssembleCluster(scopeIn, props, port) ==
    AfterVpc(props, port, getVpc(scopeIn, props.clusterName \o "-vpc", props.vpcId))

createAuroraMySqlCluster(scopeIn, props) == AssembleCluster(scopeIn, props, 3306)

\* aurora-postgres-cluster.ts: the same assembly on the PostgreSQL port
createAuroraPostgresCluster(scopeIn, props) == AssembleCluster(scopeIn, props, 5432)

----------------------------------------------------------------------------
(* route53 resolver-endpoint.ts: createResolverEndpoint                    *)

\* props.ipAddressCount || 3: an omitted count and the count 0 are falsy
IpAddressCount(props) ==
    IF Has(props, "ipAddressCount") /\ props.ipAddressCount # 0 THEN props.ipAddressCount ELSE 3

ResolverDirection(props) == OrElse(props, "direction", "INBOUND")

\* props.securityGroup || new SecurityGroup(scope, `${props.endpointName}-sg`, {...})
ResolverSecurityGroupStep(scopeIn, props) ==
    IF Has(props, "securityGroup")
    THEN [scope |-> scopeIn, value |-> props.securityGroup]
    ELSE LET sg == [kind |-> "SecurityGroup",
                    id |-> props.endpointName \o "-sg",
                    vpcId |-> props.vpc.vpcId,
                    allowAllOutbound |-> TRUE,
                    securityGroupName |-> props.endpointName \o "-resolver-sg",
                    description |-> "Security group for " \o props.endpointName
                                        \o " Route53 Resolver endpoint",
                    ingress |-> <<>>]
         IN  [scope |-> AddConstruct(scopeIn, sg), value |-> sg]

\* the two DNS rules of an inbound endpoint with an allowed CIDR
ResolverIngress(props, sg) ==
    IF ResolverDirection(props) = "INBOUND" /\ Has(props, "allowedCidr") /\ props.allowedCidr # ""
    THEN [sg EXCEPT !.ingress =
             @ \o <<[peer |-> props.allowedCidr, port |-> 53, protocol |-> "tcp",
                     description |-> "Allow DNS TCP from " \o props.allowedCidr],
                    [peer |-> props.allowedCidr, port |-> 53, protocol |-> "udp",
                     description |-> "Allow DNS UDP from " \o props.allowedCidr]>>]
    ELSE sg

\* Array.from({length: ipAddressCount}, (_, i) => ({subnetId: props.vpc.privateSubnets[i].subnetId}))
ResolverIpAddresses(props, ipAddressCount) ==
    [i \in 1..ipAddressCount |-> [subnetId |-> props.vpc.privateSubnets[i].subnetId]]

NewResolverEndpoint(props, ipAddressCount, sg) ==
    [kind |-> "CfnResolverEndpoint",
     id |-> props.endpointName \o "-endpoint",
     name |-> props.endpointName \o "-resolver",
     direction |-> ResolverDirection(props),
     ipAddresses |-> ResolverIpAddresses(props, ipAddressCount),
     securityGroupIds |-> <<sg.id>>,
     resolverEndpointType |-> "IPV4",
     tags |-> <<[key |-> "Name", value |-> props.endpointName \o "-resolver"],
                [key |-> "VPC", value |-> props.vpc.vpcId]>>
                 \o (IF Has(props, "tags") THEN props.tags ELSE <<>>)]

\* the part of the body after the two validations; the rules are added to the
\* security group, be it the new construct in the scope or the caller's
ResolverAfterValidation(props, ipAddressCount, sgStep) ==
    LET sg       == ResolverIngress(props, sgStep.value)
        scopeSg  == IF Has(props, "securityGroup") THEN sgStep.scope
                    ELSE [sgStep.scope EXCEPT ![Len(sgStep.scope)] = sg]
        endpoint == NewResolverEndpoint(props, ipAddressCount, sg)
    IN  [scope |-> AddConstruct(scopeSg, endpoint),
         threw |-> FALSE,
         message |-> "",
         value |-> [endpoint |-> endpoint, securityGroup |-> sg]]

createResolverEndpoint(scopeIn, props) ==
    IF IpAddressCount(props) < 2 \/ IpAddressCount(props) > 10
    THEN [scope |-> scopeIn] @@ Thrown("ipAddressCount must be between 2 and 10")
    ELSE IF Len(props.vpc.privateSubnets) < IpAddressCount(props)
    THEN [scope |-> scopeIn]
             @@ Thrown("VPC must have at least " \o NumberToString(IpAddressCount(props))
                           \o " private subnets for the resolver endpoint, but only "
                           \o NumberToString(Len(props.vpc.privateSubnets)) \o " were found")
    ELSE ResolverAfterValidation(props, IpAddressCount(props),
                                 ResolverSecurityGroupStep(scopeIn, props))

----------------------------------------------------------------------------
(* route53 hosted-zone.ts: createPublicHostedZone                          *)

\* new PublicHostedZone(scope, props.zoneName, {zoneName, comment}), and
\* applyRemovalPolicy when props.removalPolicy is given
NewPublicHostedZone(props) ==
    [kind |-> "PublicHostedZone", id |-> props.zoneName, zoneName |-> props.zoneName]
        @@ Opt(Has(props, "comment"), [comment |-> OrElse(props, "comment", "")])
        @@ Opt(Has(props, "removalPolicy"), [removalPolicy |-> OrElse(props, "removalPolicy", "")])

\* props.delegationRoleName || `${props.zoneName.replace(/\./g, '-')}-delegation-role`
DelegationRoleName(props) ==
    IF Has(props, "delegationRoleName") /\ props.delegationRoleName # ""
    THEN props.delegationRoleName
    ELSE ReplaceDots(props.zoneName) \o "-delegation-role"

NewDelegationRole(props) ==
    [kind |-> "Role",
     id |-> props.zoneName \o "-delegation-role",
     roleName |-> DelegationRoleName(props),
     assumedBy |-> [i \in 1..Len(props.delegationAccountIds) |->
                      [kind |-> "AccountPrincipal", accountId |-> props.delegationAccountIds[i]]],
     inlinePolicies |-> <<"delegation">>]

\* props.enableCrossAccountDelegation is truthy
DelegationEnabled(props) ==
    Has(props, "enableCrossAccountDelegation") /\ props.enableCrossAccountDelegation

\* !props.delegationAccountIds || props.delegationAccountIds.length === 0
NoDelegationAccountIds(props) ==
    ~Has(props, "delegationAccountIds") \/ Len(props.delegationAccountIds) = 0

DelegationStepRoleAlways(zoneScope, props, hostedZone) ==
    IF NoDelegationAccountIds(props)
    THEN IF DelegationEnabled(props)
         THEN [scope |-> zoneScope]
                  @@ Thrown("delegationAccountIds must be provided when enableCrossAccountDelegation is true")
         ELSE [scope |-> zoneScope, threw |-> FALSE, message |-> "",
               value |-> [hostedZone |-> hostedZone]]
    ELSE [scope |-> AddConstruct(zoneScope, NewDelegationRole(props)),
          threw |-> FALSE, message |-> "",
          value |-> [hostedZone |-> hostedZone, delegationRole |-> NewDelegationRole(props)]]

\* the body after the hosted zone was added to the scope
DelegationStep(zoneScope, props, hostedZone) ==
    IF ~DelegationEnabled(props)
    THEN [scope |-> zoneScope, threw |-> FALSE, message |-> "",
          value |-> [hostedZone |-> hostedZone]]
    ELSE IF NoDelegationAccountIds(props)
    THEN [scope |-> zoneScope]
             @@ Thrown("delegationAccountIds must be provided when enableCrossAccountDelegation is true")
    ELSE [scope |-> AddConstruct(zoneScope, NewDelegationRole(props)),
          threw |-> FALSE, message |-> "",
          value |-> [hostedZone |-> hostedZone, delegationRole |-> NewDelegationRole(props)]]

createPublicHostedZone(scopeIn, props) ==
    DelegationStep(AddConstruct(scopeIn, NewPublicHostedZone(props)), props,
                   NewPublicHostedZone(props))

----------------------------------------------------------------------------
(* route53 acm-certificate.ts: createAcmCertificate                        *)

\* Stack.of(scope).region
StackRegion == "eu-west-1"

NewCertificate(props) ==
    [kind |-> "Certificate",
     id |-> props.certificateName,
     certificateName |-> props.certificateName,
     domainName |-> props.domainName,
     validation |-> props.hostedZone.zoneName,
     dependsOn |-> props.hostedZone.zoneName]
        @@ Opt(Has(props, "subjectAlternativeNames"),
               [subjectAlternativeNames |-> OrElse(props, "subjectAlternativeNames", <<>>)])

NewCertificateOutput(props) ==
    [kind |-> "CfnOutput",
     id |-> props.certificateName \o "-arn-" \o StackRegion,
     value |-> props.certificateName \o ".certificateArn",
     description |-> "ACM Certificate ARN for " \o props.domainName \o " in " \o StackRegion]

NewCrossRegionCertificate(props) ==
    [kind |-> "AwsCustomResource",
     id |-> props.certificateName \o "-cross-region",
     region |-> props.crossRegionConfig.region,
     domainName |-> props.domainName,
     subjectAlternativeNames |-> OrElse(props, "subjectAlternativeNames", <<>>),
     physicalResourceId |-> props.certificateName \o "-" \o props.crossRegionConfig.region,
     dependsOn |-> props.hostedZone.zoneName]

NewCrossRegionOutput(props) ==
    [kind |-> "CfnOutput",
     id |-> props.certificateName \o "-arn-" \o props.crossRegionConfig.region,
     value |-> props.certificateName \o "-cross-region.CertificateArn",
     description |-> IF Has(props.crossRegionConfig, "comment")
                        /\ props.crossRegionConfig.comment # ""
                     THEN props.crossRegionConfig.comment
                     ELSE "ACM Certificate ARN for " \o props.domainName \o " in "
                              \o props.crossRegionConfig.region]

\* the body after the certificate and its output were added to the scope
CrossRegionStep(certScope, props, certificate) ==
    IF ~(Has(props, "enableCrossRegion") /\ props.enableCrossRegion)
    THEN [scope |-> certScope, threw |-> FALSE, message |-> "",
          value |-> [certificate |-> certificate]]
    ELSE IF ~Has(props, "crossRegionConfig")
    THEN [scope |-> certScope]
             @@ Thrown("crossRegionConfig must be provided when enableCrossRegion is true")
    ELSE [scope |-> AddConstruct(AddConstruct(certScope, NewCrossRegionCertificate(props)),
                                 NewCrossRegionOutput(props)),
          threw |-> FALSE, message |-> "",
          value |-> [certificate |-> certificate,
                     crossRegionCertificate |-> NewCrossRegionCertificate(props)]]

createAcmCertificate(scopeIn, props) ==
    CrossRegionStep(AddConstruct(AddConstruct(scopeIn, NewCertificate(props)),
                                 NewCertificateOutput(props)),
                    props, NewCertificate(props))

----------------------------------------------------------------------------
(* codeartifact code-artifact.ts                                           *)

\* allowedAccounts.length > 0 ? allowedAccounts.map(acc => `arn:aws:iam::${acc}:root`) : ['*'],
\* with allowedAccounts = props.allowedAccounts || []
PolicyPrincipals(props) ==
    IF Has(props, "allowedAccounts") /\ Len(props.allowedAccounts) > 0
    THEN [i \in 1..Len(props.allowedAccounts) |->
             "arn:aws:iam::" \o props.allowedAccounts[i] \o ":root"]
    ELSE <<"*">>

\* Tags.of(construct).add('Name', name), add('Stack', stackName), then props.tags
CodeArtifactTags(props, name) ==
    <<[key |-> "Name", value |-> name], [key |-> "Stack", value |-> "TestStack"]>>
        \o (IF Has(props, "tags") THEN props.tags ELSE <<>>)

RepositoryTokenActions ==
    <<"codeartifact:DescribePackageVersion", "codeartifact:DescribeRepository",
      "codeartifact:GetPackageVersionReadme", "codeartifact:Get*RepositoryEndpoint",
      "codeartifact:ListPackageVersionAssets", "codeartifact:ListPackageVersionDependencies",
      "codeartifact:ListPackageVersions", "codeartifact:ListPackages",
      "codeartifact:PublishPackageVersion", "codeartifact:PutPackageMetadata",
      "codeartifact:ReadFromRepository">>

PolicyDocument(props, actions) ==
    [Version |-> "2012-10-17",
     Statement |-> <<[Effect |-> "Allow",
                      Principal |-> [AWS |-> PolicyPrincipals(props)],
                      Action |-> actions,
                      Resource |-> "*"]>>]

NewCfnDomain(props) ==
    [kind |-> "CfnDomain",
     id |-> "CodeArtifactDomain",
     domainName |-> props.domainName,
     permissionsPolicyDocument |-> PolicyDocument(props, <<"codeartifact:GetAuthorizationToken">>),
     tags |-> CodeArtifactTags(props, props.domainName)]

createCodeArtifactDomain(scopeIn, id, props) ==
    [scope |-> AddConstruct(scopeIn, NewCfnDomain(props)),
     threw |-> FALSE,
     message |-> "",
     value |-> NewCfnDomain(props)]

NewCfnRepository(domain, props) ==
    [kind |-> "CfnRepository",
     id |-> "CodeArtifactRepository",
     domainName |-> domain.domainName,
     repositoryName |-> props.repositoryName,
     description |-> props.repositoryDescription,
     permissionsPolicyDocument |-> PolicyDocument(props, RepositoryTokenActions),
     dependsOn |-> domain.id,
     tags |-> CodeArtifactTags(props, props.repositoryName)]

createCodeArtifactRepository(scopeIn, domain, props) ==
    [scope |-> AddConstruct(scopeIn, NewCfnRepository(domain, props)),
     threw |-> FALSE,
     message |-> "",
     value |-> NewCfnRepository(domain, props)]

----------------------------------------------------------------------------
(* examples config-resolver.ts: the ConfigResolver classes of the Aurora   *)
(* and of the CloudFront examples.  Both keep the local override in two    *)
(* static fields; cls names the class.                                     *)

\* the value undefined
Undefined == [kind |-> "undefined"]

\* a module whose file does not exist: require throws
ModuleAbsent == [kind |-> "absent"]

ConfigResolvers == {"aurora", "cloudfront"}

\* the export of environments.local that the class reads
ExportName(cls) == IF cls = "aurora" THEN "LOCAL_CONFIG" ELSE "LOCAL_CLOUDFRONT_CONFIG"

\* try { const {X} = require('../../environments.local'); localConfig = X }
\* catch { localConfig = undefined }
RequiredExport(module, exportName) ==
    IF module = ModuleAbsent THEN Undefined
    ELSE IF Has(module, exportName) THEN module[exportName]
    ELSE Undefined

loadLocalConfigRetrying(cached, loaded, module, exportName) ==
    IF ~loaded \/ cached = Undefined
    THEN [localConfig |-> RequiredExport(module, exportName), localConfigLoaded |-> TRUE]
    ELSE [localConfig |-> cached, localConfigLoaded |-> loaded]

\* the static fields after loadLocalConfig(); the method returns localConfig
loadLocalConfig(cached, loaded, module, exportName) ==
    IF ~loaded
    THEN [localConfig |-> RequiredExport(module, exportName), localConfigLoaded |-> TRUE]
    ELSE [localConfig |-> cached, localConfigLoaded |-> loaded]

resolveOverridingName(baseConfig, local) ==
    IF local # Undefined
    THEN [vpcId |-> local.vpcId, subnetIds |-> local.subnetIds,
          clusterName |-> baseConfig.clusterName \o "-local"] @@ baseConfig
    ELSE baseConfig

\* Aurora: {...baseConfig, vpcId: localConfig.vpcId, subnetIds: localConfig.subnetIds}
\* when a local configuration is there, else baseConfig itself
resolve(baseConfig, local) ==
    IF local # Undefined
    THEN [vpcId |-> local.vpcId, subnetIds |-> local.subnetIds] @@ baseConfig
    ELSE baseConfig

\* ...(local[field] && {field: local[field]}) for a string property
SpreadIfTruthy(local, field) ==
    Opt(Has(local, field) /\ OrElse(local, field, "") # "", [f \in {field} |-> OrElse(local, field, "")])

\* CloudFront: the certificate, domain and Route 53 values of the local
\* configuration are laid over the cloudfront and route53 parts
resolveCloudFront(baseConfig, local) ==
    IF local # Undefined
    THEN [cloudfront |->
              SpreadIfTruthy(local, "certificateArn")
                  @@ Opt(Has(local, "domainNames"),
                         [domainNames |-> OrElse(local, "domainNames", <<>>)])
                  @@ baseConfig.cloudfront,
          route53 |->
              Opt(Has(local, "hostedZoneId") /\ OrElse(local, "hostedZoneId", "") # "",
                  [enableR53Lookup |-> TRUE, hostedZoneId |-> OrElse(local, "hostedZoneId", "")])
                  @@ SpreadIfTruthy(local, "domainName")
                  @@ SpreadIfTruthy(local, "aRecordAddress")
                  @@ baseConfig.route53]
             @@ baseConfig
    ELSE baseConfig

\* hasLocalConfig(): this.loadLocalConfig() !== undefined
hasLocalConfig(local) == local # Undefined

----------------------------------------------------------------------------
(* lib/config account-resolver.ts: resolveAccount                          *)

\* the public Account enum
Account ==
    [BUILD |-> "000000000000", DEV |-> "111111111111",
     STAGING |-> "222222222222", PROD |-> "333333333333"]

\* AccountLocal[env] of the local module; a module that is missing or has no
\* AccountLocal export makes the try block throw, which the catch swallows
LocalAccountId(accountsLocal, env) ==
    IF accountsLocal = ModuleAbsent THEN ""
    ELSE IF ~Has(accountsLocal, "AccountLocal") THEN ""
    ELSE OrElse(accountsLocal.AccountLocal, env, "")

resolveAccountLocalFirst(processEnv, accountsLocal, env) ==
    IF LocalAccountId(accountsLocal, env) \notin {"", "000000000000"}
    THEN LocalAccountId(accountsLocal, env)
    ELSE IF OrElse(processEnv, "AWS_ACCOUNT_" \o env, "") # ""
    THEN OrElse(processEnv, "AWS_ACCOUNT_" \o env, "")
    ELSE Account[env]

resolveAccount(processEnv, accountsLocal, env) ==
    IF OrElse(processEnv, "AWS_ACCOUNT_" \o env, "") # ""
    THEN OrElse(processEnv, "AWS_ACCOUNT_" \o env, "")
    ELSE IF LocalAccountId(accountsLocal, env) \notin {"", "000000000000"}
    THEN LocalAccountId(accountsLocal, env)
    ELSE Account[env]

----------------------------------------------------------------------------
(* Input domains.                                                          *)

CidrHeads == {"", "0.0.0.0", "10.0.0.0", "10.0.0.0/8"}

CidrSuffixes == StringsUpTo({"/", "0", "1", "6", "9"}, MaxSuffixLen)

CidrStrings == {h \o s : h \in CidrHeads, s \in CidrSuffixes}

VersionHeads == {"", "3", "16", "3.09", "16.4", "8.0.mysql_aurora.3.09"}

VersionTails == StringsUpTo({".", "0", "4", "b"}, MaxTailLen)

VersionStrings == {h \o t : h \in VersionHeads, t \in VersionTails}

EngineTypeCores ==
    {"", "aurora", "aurora-mysq", "aurora-mysql", "aurora-postgres", "aurora-postgresql",
     "mysql", "neptune", "docdb.5"}

EngineTypes == {pre \o core \o post : pre \in {"", "x-"}, core \in EngineTypeCores, post \in {"", "-x", "aurora-mysql"}}

EngineVersions ==
    {[fullVersion |-> v] : v \in VersionStrings} \cup {[majorVersion |-> "3"]}

Engines ==
    {[engineType |-> t, engineVersion |-> v] : t \in {"aurora-mysql", "aurora-postgresql"}, v \in EngineVersions}
        \cup {[engineType |-> t, engineVersion |-> [fullVersion |-> "3.09.0"]] : t \in EngineTypes}
        \cup {[engineType |-> "aurora-mysql"], [engineVersion |-> [fullVersion |-> "16.4"]]}

MySqlEngine == [engineType |-> "aurora-mysql", engineVersion |-> [fullVersion |-> "3.09.0"]]

PostgresEngine == [engineType |-> "aurora-postgresql", engineVersion |-> [fullVersion |-> "16.4"]]

PropsEngines ==
    {MySqlEngine, PostgresEngine,
     [engineType |-> "aurora-mysql", engineVersion |-> [fullVersion |-> "8.0.mysql_aurora.3.09.0"]],
     [engineType |-> "docdb.5", engineVersion |-> [fullVersion |-> "5.0.0"]],
     [engineType |-> "aurora-postgres"]}

ClusterNames == {"test", "my.db"}

ParameterGroupConfigs ==
    {<<>>,
     [name |-> "custom.params"],
     [name |-> ""],
     [engine |-> PostgresEngine],
     [name |-> "test-params", engine |-> MySqlEngine, description |-> "Test parameters"],
     [description |-> "Custom parameters", parameters |-> [max_connections |-> "1000"]]}

PropsCidrs == {"10.0.0.0/16", "192.168.1.0/24", "0.0.0.0/0", "10.0.0.0/8", "172.16.0.0"}

CidrLists == UNION {[1..n -> PropsCidrs] : n \in 0..MaxCidrs}

\* the required properties of AuroraClusterBaseConfig
BaseProps(engine, clusterName) ==
    [engine |-> engine,
     clusterName |-> clusterName,
     vpcId |-> "vpc-12345",
     writerInstanceType |-> "r6g.large",
     subnetIds |-> <<"subnet-1", "subnet-2">>,
     databaseName |-> "testdb"]

\* configurations that vary the cluster name, the engines and the parameter groups
NamingProps ==
    {BaseProps(engine, clusterName) @@ clusterPart @@ instancePart :
        engine \in PropsEngines,
        clusterName \in ClusterNames,
        clusterPart \in {<<>>} \cup {[clusterParameters |-> c] : c \in ParameterGroupConfigs},
        instancePart \in {<<>>} \cup {[instanceParameters |-> c] : c \in ParameterGroupConfigs}}

\* configurations that vary the allowed inbound CIDR list
CidrProps ==
    {BaseProps(engine, "test")
        @@ [clusterParameters |-> [name |-> "test-cluster-params"],
            instanceParameters |-> [name |-> "test-instance-params"]]
        @@ cidrPart :
        engine \in {MySqlEngine, PostgresEngine},
        cidrPart \in {<<>>} \cup {[allowedInboundCidrs |-> l] : l \in CidrLists}}

\* the configurations of the test suites: both parameter groups are named
NamedGroups ==
    [clusterParameters |-> [name |-> "test-cluster-params"],
     instanceParameters |-> [name |-> "test-instance-params"]]

\* an optional property: omitted, or supplied with one of values
Optional(field, values) == {<<>>} \cup {field :> v : v \in values}

InstanceTypes == {"r6g.large", "t4g.medium"}

ReadersConfigs ==
    {<<>>}
        \cup {[readerInstanceCount |-> n] : n \in 0..MaxReaders}
        \cup {[instanceType |-> t] : t \in InstanceTypes}
        \cup {[readerInstanceCount |-> n, instanceType |-> t] : n \in 0..MaxReaders, t \in InstanceTypes}

\* configurations that vary the reader configuration
ReaderProps ==
    {BaseProps(MySqlEngine, clusterName) @@ NamedGroups @@ readersPart :
        clusterName \in ClusterNames,
        readersPart \in Optional("readersConfig", ReadersConfigs)}

\* configurations that vary the properties that have a default
DefaultsProps ==
    {BaseProps(MySqlEngine, "test") @@ NamedGroups @@ iam @@ removal @@ protection @@ insights :
        iam \in Optional("iamAuthentication", BOOLEAN),
        removal \in Optional("removalPolicy", {"DESTROY", "RETAIN", "SNAPSHOT"}),
        protection \in Optional("deletionProtection", BOOLEAN),
        insights \in Optional("databaseInsightsMode", {"standard", "advanced"})}

\* Secret.fromSecretNameV2(scope, id, name): a reference, not a new construct
ImportedSecret(name) == [kind |-> "ImportedSecret", secretName |-> name]

SnapshotCredentialses ==
    {SnapshotCredentialsFromSecret(ImportedSecret("db-secret")),
     SnapshotCredentialsFromGeneratedSecret("root")}

\* configurations that vary the secret and the snapshot to restore from
SecretProps ==
    {BaseProps(MySqlEngine, clusterName) @@ NamedGroups @@ existing @@ name @@ snapshot @@ credentials :
        clusterName \in ClusterNames,
        existing \in Optional("existingSecret", {ImportedSecret("my-existing-secret")}),
        name \in Optional("secretName", {"", "my-custom-secret-name"}),
        snapshot \in Optional("snapshotIdentifier", {"", "my-snapshot"}),
        credentials \in Optional("snapshotCredentials", SnapshotCredentialses)}

\* configurations that vary monitoring and Database Insights
MonitoringProps ==
    {BaseProps(MySqlEngine, "test") @@ NamedGroups @@ enhanced @@ interval @@ insights @@ snapshot :
        enhanced \in Optional("enableClusterLevelEnhancedMonitoring", BOOLEAN),
        interval \in Optional("monitoringInterval", {DurationSeconds(n) : n \in MonitoringSeconds}),
        insights \in Optional("databaseInsightsMode", {"standard", "advanced"}),
        snapshot \in Optional("snapshotIdentifier", {"my-snapshot"})}

\* a key that the caller made, with createAuroraKmsKey or otherwise
SuppliedKey == [kind |-> "Key", id |-> "DatabaseKey", alias |-> "alias/supplied"]

\* configurations that vary the storage encryption key
KmsProps ==
    {BaseProps(MySqlEngine, clusterName) @@ NamedGroups @@ create @@ key @@ snapshot :
        clusterName \in ClusterNames,
        create \in Optional("createKmsKey", BOOLEAN),
        key \in Optional("storageEncryptionKey", {SuppliedKey}),
        snapshot \in Optional("snapshotIdentifier", {"my-snapshot"})}

ClusterProps ==
    NamingProps \cup CidrProps \cup ReaderProps \cup DefaultsProps
        \cup SecretProps \cup MonitoringProps \cup KmsProps

\* VPCs for selectSubnetsByIds
Subnet(subnetId) == [subnetId |-> subnetId, availabilityZone |-> "us-east-1a"]

SubnetLists(ids) ==
    {<<>>} \cup UNION {{<<Subnet(a)>>} \cup {<<Subnet(a), Subnet(b)>> : b \in ids \ {a}} : a \in ids}

Vpcs ==
    {[vpcId |-> "vpc-12345", vpcCidrBlock |-> "10.0.0.0/16",
      privateSubnets |-> private, publicSubnets |-> public] :
        private \in SubnetLists({"subnet-1", "subnet-2", "subnet-3"}) \cup {LookedUpVpc("vpc-12345").privateSubnets},
        public \in SubnetLists({"subnet-9"})}

RequestedIds == {"subnet-1", "subnet-2", "subnet-9", "subnet-nonexistent"}

SubnetIdLists == UNION {[1..n -> RequestedIds] : n \in 0..MaxSubnetIds}

\* a VPC with n private subnets
ResolverVpc(n) ==
    [vpcId |-> "vpc-12345",
     vpcCidrBlock |-> "10.0.0.0/16",
     privateSubnets |-> [k \in 1..n |-> Subnet("subnet-" \o NumberToString(k))],
     publicSubnets |-> <<Subnet("subnet-public")>>]

ResolverProps ==
    {[endpointName |-> "corp-resolver", vpc |-> ResolverVpc(n)]
        @@ count @@ direction @@ cidr @@ sg @@ tags :
        n \in 0..MaxPrivateSubnets,
        count \in Optional("ipAddressCount", (-1)..MaxIpAddressCount),
        direction \in Optional("direction", {"INBOUND", "OUTBOUND"}),
        cidr \in Optional("allowedCidr", {"10.0.0.0/8"}),
        sg \in Optional("securityGroup",
                      {[kind |-> "SecurityGroup", id |-> "custom-sg", ingress |-> <<>>]}),
        tags \in Optional("tags", {<<[key |-> "Environment", value |-> "dev"]>>})}

PublicHostedZoneProps ==
    {[zoneName |-> zoneName] @@ comment @@ policy @@ enable @@ ids @@ roleName :
        zoneName \in {"example.com", "dev.example.com", "localhost"},
        comment \in Optional("comment", {"Public zone"}),
        policy \in Optional("removalPolicy", {"retain"}),
        enable \in Optional("enableCrossAccountDelegation", BOOLEAN),
        ids \in Optional("delegationAccountIds",
                       {<<>>, <<"111111111111">>, <<"111111111111", "222222222222">>}),
        roleName \in Optional("delegationRoleName", {"", "dns-delegation-role"})}

AcmCertificateProps ==
    {[certificateName |-> "example-cert", domainName |-> "example.com",
      hostedZone |-> [kind |-> "HostedZone", zoneName |-> "example.com"]] @@ sans @@ enable @@ cross :
        sans \in Optional("subjectAlternativeNames", {<<>>, <<"*.example.com">>}),
        enable \in Optional("enableCrossRegion", BOOLEAN),
        cross \in Optional("crossRegionConfig",
                         {[region |-> "us-east-1"] @@ comment :
                             comment \in Optional("comment", {"", "Certificate for CloudFront distribution"})})}

AllowedAccountLists ==
    {<<>>, <<"111111111111">>, <<"111111111111", "222222222222">>,
     <<"222222222222", "111111111111">>}

CodeArtifactDomainProps ==
    {[domainName |-> domainName] @@ tags @@ accounts :
        domainName \in {"my-company", "my-domain"},
        tags \in Optional("tags", {<<[key |-> "Environment", value |-> "dev"]>>}),
        accounts \in Optional("allowedAccounts", AllowedAccountLists)}

CodeArtifactRepositoryProps ==
    {[repositoryName |-> repositoryName,
      repositoryDescription |-> "Private npm packages",
      domainName |-> "my-company"] @@ tags @@ accounts :
        repositoryName \in {"npm-packages", "my-repo"},
        tags \in Optional("tags", {<<[key |-> "Environment", value |-> "dev"]>>}),
        accounts \in Optional("allowedAccounts", AllowedAccountLists)}

PlaceholderVpcId == "vpc-xxxxxxxxxxxxxxxxx"

PlaceholderSubnetIds ==
    <<"subnet-xxxxxxxxxxxxxxxxx", "subnet-yyyyyyyyyyyyyyyyy", "subnet-zzzzzzzzzzzzzzzzz">>

MYSQL_DEV_CONFIG ==
    [engine |-> MySqlEngine,
     clusterName |-> "aurora-mysql-dev",
     vpcId |-> PlaceholderVpcId,
     subnetIds |-> PlaceholderSubnetIds,
     databaseName |-> "dev_database",
     writerInstanceType |-> "t4g.medium",
     databaseInsightsMode |-> "standard",
     iamAuthentication |-> TRUE,
     deletionProtection |-> FALSE,
     removalPolicy |-> "DESTROY",
     createKmsKey |-> FALSE]

MYSQL_PROD_CONFIG ==
    [engine |-> MySqlEngine,
     clusterName |-> "aurora-mysql-prod",
     vpcId |-> PlaceholderVpcId,
     subnetIds |-> PlaceholderSubnetIds,
     databaseName |-> "prod_database",
     writerInstanceType |-> "r6g.large",
     readersConfig |-> [readerInstanceCount |-> 2, instanceType |-> "r6g.large"],
     databaseInsightsMode |-> "advanced",
     cloudwatchLogsExports |-> <<"error", "slowquery", "general", "audit">>,
     enableClusterLevelEnhancedMonitoring |-> TRUE,
     iamAuthentication |-> TRUE,
     deletionProtection |-> FALSE,
     removalPolicy |-> "DESTROY",
     createKmsKey |-> TRUE,
     clusterParameters |-> [description |-> "Production cluster parameters",
                            parameters |-> [max_connections |-> "2000",
                                            slow_query_log |-> "1",
                                            long_query_time |-> "2"]],
     instanceParameters |-> [description |-> "Production instance parameters"]]

POSTGRES_DEV_CONFIG ==
    [engine |-> PostgresEngine,
     clusterName |-> "aurora-postgres-dev",
     vpcId |-> PlaceholderVpcId,
     subnetIds |-> PlaceholderSubnetIds,
     databaseName |-> "dev_database",
     writerInstanceType |-> "t4g.medium",
     databaseInsightsMode |-> "standard",
     cloudwatchLogsExports |-> <<"postgresql">>,
     iamAuthentication |-> TRUE,
     deletionProtection |-> FALSE,
     removalPolicy |-> "DESTROY",
     createKmsKey |-> FALSE,
     clusterParameters |-> [description |-> "Development cluster parameters",
                            parameters |-> [max_connections |-> "500"]],
     instanceParameters |-> [description |-> "Development instance parameters"],
     readersConfig |-> [readerInstanceCount |-> 0]]

POSTGRES_PROD_CONFIG ==
    [engine |-> PostgresEngine,
     clusterName |-> "aurora-postgres-prod",
     vpcId |-> PlaceholderVpcId,
     subnetIds |-> PlaceholderSubnetIds,
     databaseName |-> "prod_database",
     writerInstanceType |-> "r6g.large",
     readersConfig |-> [readerInstanceCount |-> 2, instanceType |-> "r6g.large"],
     databaseInsightsMode |-> "advanced",
     cloudwatchLogsExports |-> <<"postgresql">>,
     enableClusterLevelEnhancedMonitoring |-> TRUE,
     iamAuthentication |-> TRUE,
     deletionProtection |-> FALSE,
     removalPolicy |-> "DESTROY",
     createKmsKey |-> TRUE,
     clusterParameters |-> [description |-> "Production cluster parameters",
                            parameters |-> [max_connections |-> "2000",
                                            shared_buffers |-> "262144",
                                            effective_cache_size |-> "786432"]],
     instanceParameters |-> [description |-> "Production instance parameters"]]

CLOUDFRONT_DEV_CONFIG ==
    [s3 |-> [bucketName |-> "cdk-constructs-cloudfront-content-dev-20260103",
             versioned |-> TRUE,
             removalPolicy |-> "DESTROY",
             storageClass |-> [strategy |-> "LIFECYCLE_RULE",
                               config |-> [infrequentAccessTransitionAfter |-> [days |-> 30],
                                           glacierTransitionAfter |-> [days |-> 90]]]],
     cloudfront |-> [distributionName |-> "cdk-constructs-cf-dev",
                     logBucketName |-> "cdk-constructs-cloudfront-logs-dev-20260103",
                     defaultRootObject |-> "index.html",
                     comment |-> "Development CloudFront distribution for CDK constructs example"],
     route53 |-> [enableR53Lookup |-> FALSE]]

CLOUDFRONT_PROD_CONFIG ==
    [s3 |-> [bucketName |-> "cdk-constructs-cloudfront-content-prod-20260103",
             versioned |-> TRUE,
             removalPolicy |-> "RETAIN",
             storageClass |-> [strategy |-> "INTELLIGENT_TIERING_ARCHIVE",
                               config |-> [name |-> "intelligent-tiering-archive",
                                           archiveAccessTierTime |-> [days |-> 90],
                                           deepArchiveAccessTierTime |-> [days |-> 180]]]],
     cloudfront |-> [distributionName |-> "cdk-constructs-cf-prod",
                     logBucketName |-> "cdk-constructs-cloudfront-logs-prod-20260103",
                     defaultRootObject |-> "index.html",
                     comment |-> "Production CloudFront distribution for CDK constructs example",
                     priceClass |-> "PriceClass_All"],
     route53 |-> [enableR53Lookup |-> FALSE]]

\* the configuration objects that the config modules export, by name
BaseConfigs ==
    [MYSQL_DEV_CONFIG |-> MYSQL_DEV_CONFIG,
     MYSQL_PROD_CONFIG |-> MYSQL_PROD_CONFIG,
     POSTGRES_DEV_CONFIG |-> POSTGRES_DEV_CONFIG,
     POSTGRES_PROD_CONFIG |-> POSTGRES_PROD_CONFIG,
     CLOUDFRONT_DEV_CONFIG |-> CLOUDFRONT_DEV_CONFIG,
     CLOUDFRONT_PROD_CONFIG |-> CLOUDFRONT_PROD_CONFIG]

\* the values that environments.local exports as LOCAL_CONFIG
LocalConfigs ==
    {[vpcId |-> "vpc-12345", subnetIds |-> <<"subnet-1", "subnet-2">>],
     [vpcId |-> "vpc-67890", subnetIds |-> <<"subnet-7", "subnet-8", "subnet-9">>]}

\* the values that environments.local exports as LOCAL_CLOUDFRONT_CONFIG
LocalCloudFrontConfigs ==
    {[certificateArn |-> "arn:aws:acm:us-east-1:111111111111:certificate/abc",
      domainNames |-> <<"cdn.example.com">>],
     [certificateArn |-> "", hostedZoneId |-> "Z0123456789", domainName |-> "example.com",
      aRecordAddress |-> "cdn"]}

\* environments.local: missing, or a module with either export or both
EnvironmentsLocalModules ==
    {ModuleAbsent}
        \cup {aurora @@ cloudfront :
                aurora \in Optional("LOCAL_CONFIG", LocalConfigs),
                cloudfront \in Optional("LOCAL_CLOUDFRONT_CONFIG", LocalCloudFrontConfigs)}

AccountEnvs == {"BUILD", "DEV", "STAGING", "PROD"}

\* process.env, as far as the AWS_ACCOUNT_ variables go
ProcessEnvs ==
    {<<>>} \cup {("AWS_ACCOUNT_" \o env) :> value :
                    env \in AccountEnvs, value \in {"", "999999999999"}}

\* accounts.local: missing, without the AccountLocal export, or with one
AccountsLocalModules ==
    {ModuleAbsent, [Account |-> Account]}
        \cup {[AccountLocal |-> entries] :
                entries \in {<<>>, [BUILD |-> "444444444444", DEV |-> "555555555555",
                                    STAGING |-> "000000000000", PROD |-> ""]}
                            \cup {env :> "666666666666" : env \in AccountEnvs}}

----------------------------------------------------------------------------
(* Calls.  Every call is made on a fresh Stack, as the test suites and the *)
(* example stacks do; NewStack discards the Stack of the previous call.    *)

NoCall == [op |-> "none"]

\* no configuration object has been handed to a factory
NoConfig == <<>>

Init ==
    /\ scope = <<>>
    /\ call = NoCall
    /\ outcome = Returned
    /\ heldProps = NoConfig
    /\ environmentsLocal = ModuleAbsent
    /\ localConfig = [cls \in ConfigResolvers |-> Undefined]
    /\ localConfigLoaded = [cls \in ConfigResolvers |-> FALSE]
    /\ baseConfigs = BaseConfigs

NewStack ==
    /\ call # NoCall
    /\ scope' = <<>>
    /\ call' = NoCall
    /\ outcome' = Returned
    /\ heldProps' = NoConfig
    /\ UNCHANGED configVars

CallValidateCidr ==
    /\ call = NoCall
    /\ \E cidr \in CidrStrings :
        /\ call' = [op |-> "validateCidr", cidr |-> cidr]
        /\ outcome' = validateCidr(cidr)
        /\ UNCHANGED <<scope, heldProps>>
        /\ UNCHANGED configVars

CallGetEngineVersion ==
    /\ call = NoCall
    /\ \E engine \in Engines :
        /\ call' = [op |-> "getEngineVersion", engine |-> engine]
        /\ outcome' = [threw |-> FALSE, message |-> "", value |-> getEngineVersion(engine)]
        /\ UNCHANGED <<scope, heldProps>>
        /\ UNCHANGED configVars

CallGetEngineFamily ==
    /\ call = NoCall
    /\ \E engine \in Engines :
        /\ call' = [op |-> "getEngineFamily", engine |-> engine]
        /\ outcome' = [threw |-> FALSE, message |-> "", value |-> getEngineFamily(engine)]
        /\ UNCHANGED <<scope, heldProps>>
        /\ UNCHANGED configVars

\* a loop that consumes the array: while (list.length > 0) list.shift()
AfterShiftLoop(list) == SubSeq(list, 1, 0)

\* list.forEach(callback), the callback only reading its entry: the array is
\* left as it was, also when the callback throws
AfterForEach(list) == list

\* props as a call of op leaves it: createAuroraSecurityGroup, itself or inside
\* a cluster factory, applies forEach to allowedInboundCidrs; every other
\* statement only reads props and the objects it holds
PropsAfterCall(op, props) ==
    IF /\ op \in {"createAuroraSecurityGroup", "createAuroraMySqlCluster", "createAuroraPostgresCluster"}
       /\ Has(props, "allowedInboundCidrs")
       /\ Len(props.allowedInboundCidrs) > 0
    THEN [props EXCEPT !.allowedInboundCidrs = AfterForEach(@)]
    ELSE props

\* the step of a factory call: the Stack, the outcome and the configuration
\* object that the call leaves
Finish(op, props, result) ==
    /\ call' = [op |-> op, props |-> props]
    /\ scope' = result.scope
    /\ outcome' = [f \in DOMAIN result \ {"scope"} |-> result[f]]
    /\ heldProps' = PropsAfterCall(op, props)
    /\ UNCHANGED configVars

CallCreateClusterParameterGroup ==
    /\ call = NoCall
    /\ \E props \in NamingProps :
        Finish("createClusterParameterGroup", props,
               [threw |-> FALSE, message |-> ""] @@ createClusterParameterGroup(scope, props))

CallCreateInstanceParameterGroup ==
    /\ call = NoCall
    /\ \E props \in NamingProps :
        Finish("createInstanceParameterGroup", props,
               [threw |-> FALSE, message |-> ""] @@ createInstanceParameterGroup(scope, props))

CallCreateAuroraSecurityGroup ==
    /\ call = NoCall
    /\ \E props \in CidrProps, port \in {3306, 5432} :
        Finish("createAuroraSecurityGroup", props,
               createAuroraSecurityGroup(scope, "ClusterSG", LookedUpVpc(props.vpcId), port, props))

CallCreateClusterReaders ==
    /\ call = NoCall
    /\ \E props \in ReaderProps :
        Finish("createClusterReaders", props,
               [scope |-> createInstanceParameterGroup(scope, props).scope,
                threw |-> FALSE,
                message |-> "",
                value |-> createClusterReaders(props, createInstanceParameterGroup(scope, props).value)])

CallSelectSubnetsByIds ==
    /\ call = NoCall
    /\ \E vpc \in Vpcs, subnetIds \in SubnetIdLists :
        /\ call' = [op |-> "selectSubnetsByIds", vpc |-> vpc, subnetIds |-> subnetIds]
        /\ outcome' = [threw |-> FALSE, message |-> "", value |-> selectSubnetsByIds(vpc, subnetIds)]
        /\ UNCHANGED <<scope, heldProps>>
        /\ UNCHANGED configVars

CallCreateResolverEndpoint ==
    /\ call = NoCall
    /\ \E props \in ResolverProps :
        Finish("createResolverEndpoint", props, createResolverEndpoint(scope, props))

CallCreatePublicHostedZone ==
    /\ call = NoCall
    /\ \E props \in PublicHostedZoneProps :
        Finish("createPublicHostedZone", props, createPublicHostedZone(scope, props))

CallCreateAcmCertificate ==
    /\ call = NoCall
    /\ \E props \in AcmCertificateProps :
        Finish("createAcmCertificate", props, createAcmCertificate(scope, props))

CallCreateCodeArtifactDomain ==
    /\ call = NoCall
    /\ \E props \in CodeArtifactDomainProps :
        Finish("createCodeArtifactDomain", props,
               createCodeArtifactDomain(scope, "CodeArtifactDomain", props))

\* the repository is created in the domain that createCodeArtifactDomain
\* returned for a domain configuration of its own
CallCreateCodeArtifactRepository ==
    /\ call = NoCall
    /\ \E domainProps \in CodeArtifactDomainProps, props \in CodeArtifactRepositoryProps :
        Finish("createCodeArtifactRepository", props,
               createCodeArtifactRepository(
                   createCodeArtifactDomain(scope, "CodeArtifactDomain", domainProps).scope,
                   createCodeArtifactDomain(scope, "CodeArtifactDomain", domainProps).value,
                   props))

CallCreateAuroraMySqlCluster ==
    /\ call = NoCall
    /\ \E props \in ClusterProps :
        Finish("createAuroraMySqlCluster", props, createAuroraMySqlCluster(scope, props))

CallCreateAuroraPostgresCluster ==
    /\ call = NoCall
    /\ \E props \in ClusterProps :
        Finish("createAuroraPostgresCluster", props, createAuroraPostgresCluster(scope, props))

Next ==
    \/ NewStack
    \/ CallValidateCidr
    \/ CallGetEngineVersion
    \/ CallGetEngineFamily
    \/ CallCreateClusterParameterGroup
    \/ CallCreateInstanceParameterGroup
    \/ CallCreateAuroraSecurityGroup
    \/ CallCreateClusterReaders
    \/ CallSelectSubnetsByIds
    \/ CallCreateResolverEndpoint
    \/ CallCreatePublicHostedZone
    \/ CallCreateAcmCertificate
    \/ CallCreateCodeArtifactDomain
    \/ CallCreateCodeArtifactRepository
    \/ CallCreateAuroraMySqlCluster
    \/ CallCreateAuroraPostgresCluster

Spec == Init /\ [][Next]_vars

----------------------------------------------------------------------------
(* The configuration layer of the examples: one process, in which the      *)
(* account resolver runs when its module is loaded and the getters of the  *)
(* two ConfigResolver classes are then called any number of times, while   *)
(* the developer may create, edit or delete the gitignored                 *)
(* environments.local file.                                                *)

\* ResolvedAccounts is computed when account-resolver.ts is loaded
CallResolveAccount ==
    /\ call = NoCall
    /\ \E processEnv \in ProcessEnvs, accountsLocal \in AccountsLocalModules, env \in AccountEnvs :
        /\ call' = [op |-> "resolveAccount", processEnv |-> processEnv,
                    accountsLocal |-> accountsLocal, env |-> env]
        /\ outcome' = [threw |-> FALSE, message |-> "",
                       value |-> resolveAccount(processEnv, accountsLocal, env)]
    /\ UNCHANGED <<scope, heldProps>>
    /\ UNCHANGED configVars

EditEnvironmentsLocal ==
    /\ \E module \in EnvironmentsLocalModules \ {environmentsLocal} :
        environmentsLocal' = module
    /\ UNCHANGED <<scope, call, outcome, heldProps, localConfig, localConfigLoaded, baseConfigs>>

\* the step of a public method of the class cls: loadLocalConfig() runs first,
\* then the method computes its value from the local configuration it returned;
\* resolve builds its value with an object spread and assigns to no base
\* configuration
PublicMethod(cls, op, after, value) ==
    /\ call' = [op |-> op, cls |-> cls]
    /\ localConfig' = [localConfig EXCEPT ![cls] = after.localConfig]
    /\ localConfigLoaded' = [localConfigLoaded EXCEPT ![cls] = after.localConfigLoaded]
    /\ outcome' = [threw |-> FALSE, message |-> "", value |-> value]
    /\ UNCHANGED <<scope, heldProps, environmentsLocal, baseConfigs>>

\* a getter of the Aurora class: this.resolve(baseConfig)
AuroraGetter(op, name) ==
    /\ PublicMethod("aurora", op,
                    loadLocalConfig(localConfig["aurora"], localConfigLoaded["aurora"],
                                    environmentsLocal, ExportName("aurora")),
                    resolve(baseConfigs[name],
                            loadLocalConfig(localConfig["aurora"], localConfigLoaded["aurora"],
                                            environmentsLocal, ExportName("aurora")).localConfig))

\* a getter of the CloudFront class
CloudFrontGetter(op, name) ==
    /\ PublicMethod("cloudfront", op,
                    loadLocalConfig(localConfig["cloudfront"], localConfigLoaded["cloudfront"],
                                    environmentsLocal, ExportName("cloudfront")),
                    resolveCloudFront(baseConfigs[name],
                            loadLocalConfig(localConfig["cloudfront"], localConfigLoaded["cloudfront"],
                                            environmentsLocal, ExportName("cloudfront")).localConfig))

CallGetMySqlDevConfig == AuroraGetter("getMySqlDevConfig", "MYSQL_DEV_CONFIG")

CallGetMySqlProdConfig == AuroraGetter("getMySqlProdConfig", "MYSQL_PROD_CONFIG")

CallGetPostgresDevConfig == AuroraGetter("getPostgresDevConfig", "POSTGRES_DEV_CONFIG")

CallGetPostgresProdConfig == AuroraGetter("getPostgresProdConfig", "POSTGRES_PROD_CONFIG")

CallGetCloudFrontDevConfig == CloudFrontGetter("getCloudFrontDevConfig", "CLOUDFRONT_DEV_CONFIG")

CallGetCloudFrontProdConfig == CloudFrontGetter("getCloudFrontProdConfig", "CLOUDFRONT_PROD_CONFIG")

CallHasLocalConfig ==
    \E cls \in ConfigResolvers :
        /\ PublicMethod(cls, "hasLocalConfig",
                        loadLocalConfig(localConfig[cls], localConfigLoaded[cls],
                                        environmentsLocal, ExportName(cls)),
                        hasLocalConfig(loadLocalConfig(localConfig[cls], localConfigLoaded[cls],
                                                       environmentsLocal, ExportName(cls)).localConfig))

ConfigNext ==
    \/ CallResolveAccount
    \/ EditEnvironmentsLocal
    \/ CallGetMySqlDevConfig
    \/ CallGetMySqlProdConfig
    \/ CallGetPostgresDevConfig
    \/ CallGetPostgresProdConfig
    \/ CallGetCloudFrontDevConfig
    \/ CallGetCloudFrontProdConfig
    \/ CallHasLocalConfig

ConfigSpec == Init /\ [][ConfigNext]_vars

----------------------------------------------------------------------------
(* Properties of validateCidr.                                             *)

\* the decimal digits after the last "/" of cidr, when cidr ends in "/" and digits
HasPrefixSuffix(cidr, i) ==
    /\ i < Len(cidr)
    /\ CharAt(cidr, i) = "/"
    /\ AllDigits(SubSeq(cidr, i + 1, Len(cidr)))

PrefixLength(cidr, i) == ParseInt(SubSeq(cidr, i + 1, Len(cidr)))

\* C2: validateCidr of exactly "0.0.0.0/0" throws the security-violation error
\* whose message contains "open to the internet", never the prefix-violation error.
C2_OpenCidrSecurityViolation ==
    (call.op = "validateCidr" /\ call.cidr = "0.0.0.0/0") =>
        /\ outcome.threw
        /\ Includes(outcome.message, "open to the internet")
        /\ ~Includes(outcome.message, "less restrictive than /16")

C2_Witness ==
    /\ call.op = "validateCidr"
    /\ call.cidr = "0.0.0.0/0"
    /\ outcome.threw

\* C3: for every CIDR string other than "0.0.0.0/0" that ends in /N, validateCidr
\* throws the prefix-violation error naming the CIDR and /N when N < 16, and
\* returns without error when N >= 16.
C3_PrefixRule ==
    (call.op = "validateCidr" /\ call.cidr # "0.0.0.0/0") =>
        \A i \in 1..Len(call.cidr) :
            HasPrefixSuffix(call.cidr, i) =>
                IF PrefixLength(call.cidr, i) < 16
                THEN /\ outcome.threw
                     /\ Includes(outcome.message,
                                 "CIDR " \o call.cidr \o " has prefix /"
                                     \o NumberToString(PrefixLength(call.cidr, i)) \o " ")
                     /\ Includes(outcome.message, "less restrictive than /16")
                     /\ ~Includes(outcome.message, "open to the internet")
                ELSE ~outcome.threw

C3_Witness ==
    /\ call.op = "validateCidr"
    /\ call.cidr = "10.0.0.0/8"
    /\ outcome.threw
    /\ Includes(outcome.message, "CIDR 10.0.0.0/8 has prefix /8 which is less restrictive than /16")

----------------------------------------------------------------------------
(* Properties of the security group and of the cluster factories.          *)

Factories == {"createAuroraMySqlCluster", "createAuroraPostgresCluster"}

ClusterKinds == {"DatabaseCluster", "DatabaseClusterFromSnapshot"}

ResourceKinds == {"ParameterGroup", "SecurityGroup", "Secret", "Key"} \cup ClusterKinds

AllowedInboundCidrs(props) ==
    IF Has(props, "allowedInboundCidrs") THEN props.allowedInboundCidrs ELSE <<>>

\* an entry that is the open range or has a prefix length below 16
InvalidEntry(cidr) ==
    \/ cidr = "0.0.0.0/0"
    \/ \E i \in 1..Len(cidr) : HasPrefixSuffix(cidr, i) /\ PrefixLength(cidr, i) < 16

HasInvalidEntry(props) ==
    \E k \in 1..Len(AllowedInboundCidrs(props)) : InvalidEntry(AllowedInboundCidrs(props)[k])

\* C1: when createAuroraMySqlCluster is given a list with an entry that CIDR
\* validation rejects, the error is raised before any parameter group, security
\* group, ingress rule, secret, KMS key or cluster was added to the scope.
C1_NoConstructBeforeCidrError ==
    (call.op = "createAuroraMySqlCluster" /\ HasInvalidEntry(call.props)) =>
        /\ outcome.threw
        /\ \A i \in 1..Len(scope) : scope[i].kind \notin ResourceKinds

C5_NoRuleBeforeValidation ==
    (call.op = "createAuroraSecurityGroup" /\ outcome.threw) =>
        \A i \in 1..Len(scope) : scope[i].kind = "SecurityGroup" => scope[i].ingress = <<>>

----------------------------------------------------------------------------
(* Properties of the parameter-group names.                                *)

NoNameSupplied(props, field) == ~Has(ParameterConfig(props, field), "name")

\* "{clusterName}{segment}{engineFamily}-{versionToken}" before the dots are replaced
DerivedName(props, field, segment) ==
    props.clusterName \o segment
        \o getEngineFamily(ParameterGroupEngine(props, field)) \o "-"
        \o getEngineVersion(ParameterGroupEngine(props, field))

\* name is derived with every "." replaced by "-"
DotsReplaced(name, derived) ==
    /\ Len(name) = Len(derived)
    /\ \A i \in 1..Len(derived) :
          CharAt(name, i) = (IF CharAt(derived, i) = "." THEN "-" ELSE CharAt(derived, i))
    /\ ~Includes(name, ".")

\* the two names are equal but for the literal cluster / instance segment
DifferOnlyInSegment(clusterGroupName, instanceGroupName) ==
    \E k \in 0..Len(clusterGroupName) :
        /\ k + 9 <= Len(clusterGroupName)
        /\ k + 10 <= Len(instanceGroupName)
        /\ SubSeq(clusterGroupName, 1, k) = SubSeq(instanceGroupName, 1, k)
        /\ SubSeq(clusterGroupName, k + 1, k + 9) = "-cluster-"
        /\ SubSeq(instanceGroupName, k + 1, k + 10) = "-instance-"
        /\ SubSeq(clusterGroupName, k + 10, Len(clusterGroupName))
               = SubSeq(instanceGroupName, k + 11, Len(instanceGroupName))

\* the parameter groups that a factory call added to the scope
GroupsWithId(idSegment) ==
    {i \in 1..Len(scope) : scope[i].kind = "ParameterGroup" /\ Includes(scope[i].id, idSegment)}

\* C6: without an explicit name the cluster and instance parameter groups are
\* named "{clusterName}-cluster-{engineFamily}-{versionToken}" and
\* "{clusterName}-instance-{engineFamily}-{versionToken}" with every "." replaced
\* by "-"; for the same engine the two differ only in the cluster / instance
\* segment; cluster "test" on aurora-mysql 3.09.0 gives "test-cluster-aurora-mysql-3-09".
C6_DerivedParameterGroupNames ==
    /\ (call.op = "createClusterParameterGroup" /\ NoNameSupplied(call.props, "clusterParameters")) =>
           /\ DotsReplaced(outcome.value.name, DerivedName(call.props, "clusterParameters", "-cluster-"))
           /\ (call.props.clusterName = "test"
                   /\ ParameterGroupEngine(call.props, "clusterParameters") = MySqlEngine)
                  => outcome.value.name = "test-cluster-aurora-mysql-3-09"
    /\ (call.op = "createInstanceParameterGroup" /\ NoNameSupplied(call.props, "instanceParameters")) =>
           DotsReplaced(outcome.value.name, DerivedName(call.props, "instanceParameters", "-instance-"))
    /\ (call.op \in Factories /\ NoNameSupplied(call.props, "clusterParameters")) =>
           \A i \in GroupsWithId("-ClusterParams-") :
               DotsReplaced(scope[i].name, DerivedName(call.props, "clusterParameters", "-cluster-"))
    /\ (call.op \in Factories /\ NoNameSupplied(call.props, "instanceParameters")) =>
           \A i \in GroupsWithId("-InstanceParams-") :
               DotsReplaced(scope[i].name, DerivedName(call.props, "instanceParameters", "-instance-"))
    /\ (/\ call.op \in Factories
        /\ NoNameSupplied(call.props, "clusterParameters")
        /\ NoNameSupplied(call.props, "instanceParameters")
        /\ ParameterGroupEngine(call.props, "clusterParameters")
               = ParameterGroupEngine(call.props, "instanceParameters")) =>
           \A i \in GroupsWithId("-ClusterParams-"), j \in GroupsWithId("-InstanceParams-") :
               DifferOnlyInSegment(scope[i].name, scope[j].name)

C6_Witness ==
    /\ call.op = "createAuroraMySqlCluster"
    /\ call.props.clusterName = "my.db"
    /\ NoNameSupplied(call.props, "clusterParameters")
    /\ NoNameSupplied(call.props, "instanceParameters")
    /\ call.props.engine.engineType = "docdb.5"
    /\ \E i, j \in 1..Len(scope) :
          /\ scope[i].kind = "ParameterGroup"
          /\ scope[i].name = "my-db-cluster-docdb-5-5-0"
          /\ scope[j].kind = "ParameterGroup"
          /\ scope[j].name = "my-db-instance-docdb-5-5-0"

----------------------------------------------------------------------------
(* Properties of getEngineVersion and getEngineFamily.                     *)

HasFullVersion(engine) ==
    Has(engine, "engineVersion") /\ Has(engine.engineVersion, "fullVersion")

\* s begins with digits 1..i, a dot, and digits i+2..j
MajorMinorAt(s, i, j) ==
    /\ 1 <= i
    /\ i + 2 <= j
    /\ j <= Len(s)
    /\ AllDigits(SubSeq(s, 1, i))
    /\ CharAt(s, i + 1) = "."
    /\ AllDigits(SubSeq(s, i + 2, j))

\* s is major.minor or major.minor.patch, the groups being decimal digits
IsMajorMinorPatch(s, i, j) ==
    /\ MajorMinorAt(s, i, j)
    /\ \/ j = Len(s)
       \/ /\ j + 1 < Len(s)
          /\ CharAt(s, j + 1) = "."
          /\ AllDigits(SubSeq(s, j + 2, Len(s)))

MatchesVersionPattern(engine) ==
    /\ HasFullVersion(engine)
    /\ \E i, j \in 1..Len(engine.engineVersion.fullVersion) :
          IsMajorMinorPatch(engine.engineVersion.fullVersion, i, j)

StartsWithMajorMinor(engine) ==
    /\ HasFullVersion(engine)
    /\ \E i, j \in 1..Len(engine.engineVersion.fullVersion) :
          MajorMinorAt(engine.engineVersion.fullVersion, i, j)

NamingOps ==
    {"getEngineVersion", "getEngineFamily", "createClusterParameterGroup", "createInstanceParameterGroup"}

\* C8 as stated: every version string that does not match major.minor[.patch]
\* (a missing version included) gives the token "unknown", and the derivation
\* never throws.
C8_UnknownUnlessPattern ==
    /\ (call.op = "getEngineVersion" /\ ~MatchesVersionPattern(call.engine)) =>
           outcome.value = "unknown"
    /\ call.op \in NamingOps => ~outcome.threw

\* C8 amended: every version string that does not begin with major.minor (a
\* missing version included) gives the token "unknown"; a string that begins
\* with major.minor gives a major-minor token whatever follows the minor group;
\* the derivation never throws.
C8_UnknownUnlessMajorMinorPrefix ==
    /\ (call.op = "getEngineVersion" /\ ~StartsWithMajorMinor(call.engine)) =>
           outcome.value = "unknown"
    /\ (call.op = "getEngineVersion" /\ StartsWithMajorMinor(call.engine)) =>
           outcome.value # "unknown"
    /\ call.op \in NamingOps => ~outcome.threw

C8_Witness ==
    /\ call.op = "getEngineVersion"
    /\ HasFullVersion(call.engine)
    /\ call.engine.engineVersion.fullVersion = "16.b"
    /\ outcome.value = "unknown"

\* C9: a full version of the form major.minor or major.minor.patch gives
\* "{major}-{minor}", both digit groups verbatim and the patch dropped.
C9_MajorMinorVerbatim ==
    (call.op = "getEngineVersion" /\ HasFullVersion(call.engine)) =>
        \A i, j \in 1..Len(call.engine.engineVersion.fullVersion) :
            IsMajorMinorPatch(call.engine.engineVersion.fullVersion, i, j) =>
                outcome.value = SubSeq(call.engine.engineVersion.fullVersion, 1, i) \o "-"
                                    \o SubSeq(call.engine.engineVersion.fullVersion, i + 2, j)

C9_Witness ==
    /\ call.op = "getEngineVersion"
    /\ HasFullVersion(call.engine)
    /\ call.engine.engineVersion.fullVersion = "3.09.0"
    /\ outcome.value = "3-09"

RecognizedFamily(engineType) ==
    \/ Includes(engineType, "aurora-mysql")
    \/ Includes(engineType, "aurora-postgresql")
    \/ Includes(engineType, "aurora-postgres")

\* C10: getEngineFamily returns "aurora-mysql" or "aurora-postgresql" for an
\* engine of a recognized family and the engine-type string verbatim otherwise.
C10_FamilyNormalizedOrVerbatim ==
    (call.op = "getEngineFamily" /\ Has(call.engine, "engineType")) =>
        /\ RecognizedFamily(call.engine.engineType) =>
               outcome.value \in {"aurora-mysql", "aurora-postgresql"}
        /\ call.engine.engineType \in {"aurora-mysql", "aurora-postgresql"} =>
               outcome.value = call.engine.engineType
        /\ ~RecognizedFamily(call.engine.engineType) =>
               outcome.value = call.engine.engineType

C10_Witness ==
    /\ call.op = "getEngineFamily"
    /\ Has(call.engine, "engineType")
    /\ call.engine.engineType = "x-neptune-x"
    /\ outcome.value = "x-neptune-x"

----------------------------------------------------------------------------
(* Properties of createClusterReaders.                                     *)

ReadersConfig(props) == IF Has(props, "readersConfig") THEN props.readersConfig ELSE <<>>

RequestedReaders(props) ==
    IF Has(ReadersConfig(props), "readerInstanceCount")
    THEN ReadersConfig(props).readerInstanceCount ELSE 0

IndexText == <<"0", "1", "2", "3", "4", "5", "6", "7", "8", "9">>

\* readers is the list of exactly the readers 0..N-1 of the configuration, or
\* the empty list when the count is 0 or absent or the instance type is absent
ExpectedReaders(props, readers) ==
    IF RequestedReaders(props) > 0 /\ Has(ReadersConfig(props), "instanceType")
    THEN /\ Len(readers) = RequestedReaders(props)
         /\ \A i \in 0..(RequestedReaders(props) - 1) :
               /\ readers[i + 1].id = "reader" \o IndexText[i + 1]
               /\ readers[i + 1].instanceIdentifier
                      = props.clusterName \o "-reader-" \o IndexText[i + 1]
               /\ readers[i + 1].instanceType = ReadersConfig(props).instanceType
    ELSE readers = <<>>

----------------------------------------------------------------------------
(* Properties of the cluster configuration.                                *)

\* the value of an optional property, or its default when it is omitted
SuppliedOr(props, field, default) == IF Has(props, field) THEN props[field] ELSE default

\* the cluster constructs that the call added to the scope
ClustersInScope == {i \in 1..Len(scope) : scope[i].kind \in ClusterKinds}

\* C12: the cluster that createAuroraMySqlCluster creates has iamAuthentication,
\* removalPolicy, deletionProtection and databaseInsightsMode equal to the
\* caller's value when one is supplied (iamAuthentication = false included) and
\* to true, SNAPSHOT, false and STANDARD when it is omitted.
C12_DefaultsAndOverrides ==
    (call.op = "createAuroraMySqlCluster" /\ ~outcome.threw) =>
        \A i \in ClustersInScope :
            /\ scope[i] = outcome.value.cluster
            /\ scope[i].iamAuthentication = SuppliedOr(call.props, "iamAuthentication", TRUE)
            /\ scope[i].removalPolicy = SuppliedOr(call.props, "removalPolicy", "SNAPSHOT")
            /\ scope[i].deletionProtection = SuppliedOr(call.props, "deletionProtection", FALSE)
            /\ scope[i].databaseInsightsMode = SuppliedOr(call.props, "databaseInsightsMode", "standard")

C12_Witness ==
    /\ call.op = "createAuroraMySqlCluster"
    /\ ~outcome.threw
    /\ Has(call.props, "iamAuthentication")
    /\ ~call.props.iamAuthentication
    /\ ~Has(call.props, "removalPolicy")
    /\ Has(call.props, "deletionProtection")
    /\ call.props.deletionProtection
    /\ ~outcome.value.cluster.iamAuthentication
    /\ outcome.value.cluster.removalPolicy = "SNAPSHOT"
    /\ outcome.value.cluster.deletionProtection

----------------------------------------------------------------------------
(* Properties of the secret.                                               *)

SecretsInScope == {i \in 1..Len(scope) : scope[i].kind = "Secret"}

\* the call created exactly one secret, named name, and returned it
OneNewSecretNamed(name) ==
    /\ Cardinality(SecretsInScope) = 1
    /\ \A i \in SecretsInScope :
          /\ scope[i] = outcome.value.secret
          /\ scope[i].secretName = name

\* the call created no secret and returned the caller's
ExistingSecretReturned ==
    /\ SecretsInScope = {}
    /\ outcome.value.secret = call.props.existingSecret

\* C13 as stated: with existingSecret no secret is created and the existing one
\* is returned; otherwise exactly one secret is created and returned, named
\* secretName when that property is supplied and "{clusterName}-credentials"
\* when it is not.
C13_SecretNamedAsSupplied ==
    (call.op = "createAuroraMySqlCluster" /\ ~outcome.threw) =>
        IF Has(call.props, "existingSecret") THEN ExistingSecretReturned
        ELSE IF Has(call.props, "secretName") THEN OneNewSecretNamed(call.props.secretName)
        ELSE OneNewSecretNamed(call.props.clusterName \o "-credentials")

\* C13 amended: with existingSecret no secret is created and the existing one
\* is returned; otherwise exactly one secret is created and returned, named
\* secretName when a non-empty secretName is supplied and
\* "{clusterName}-credentials" when secretName is omitted or is the empty string.
C13_SecretNamedUnlessEmpty ==
    (call.op = "createAuroraMySqlCluster" /\ ~outcome.threw) =>
        IF Has(call.props, "existingSecret") THEN ExistingSecretReturned
        ELSE IF Has(call.props, "secretName") /\ call.props.secretName # ""
             THEN OneNewSecretNamed(call.props.secretName)
        ELSE OneNewSecretNamed(call.props.clusterName \o "-credentials")

C13_Witness ==
    /\ call.op = "createAuroraMySqlCluster"
    /\ ~outcome.threw
    /\ ~Has(call.props, "existingSecret")
    /\ Has(call.props, "secretName")
    /\ call.props.secretName = ""
    /\ call.props.clusterName = "my.db"
    /\ outcome.value.secret.secretName = "my.db-credentials"
    /\ Cardinality(SecretsInScope) = 1

----------------------------------------------------------------------------
(* Properties of the cluster construct.                                    *)

\* the properties that only one of the two cluster constructs takes
BranchFields == {"kind", "credentials", "snapshotIdentifier", "snapshotCredentials"}

\* the common cluster configuration that a cluster construct received
CommonPart(cluster) == [f \in DOMAIN cluster \ BranchFields |-> cluster[f]]

\* the configuration of call.props on the other branch: the same properties
\* with the snapshot identifier removed, or added
OtherBranchProps(props) ==
    IF Has(props, "snapshotIdentifier")
    THEN [f \in DOMAIN props \ {"snapshotIdentifier"} |-> props[f]]
    ELSE props @@ [snapshotIdentifier |-> "my-snapshot"]

\* the call created exactly one cluster construct, of the given kind, and returned it
OneCluster(kind) ==
    /\ Cardinality(ClustersInScope) = 1
    /\ \A i \in ClustersInScope :
          /\ scope[i].kind = kind
          /\ scope[i] = outcome.value.cluster

\* the cluster's common configuration is the one the other branch receives
SameCommonConfiguration ==
    CommonPart(outcome.value.cluster)
        = CommonPart(createAuroraMySqlCluster(<<>>, OtherBranchProps(call.props)).value.cluster)

\* C14 as stated: a successful call creates exactly one cluster construct, a
\* DatabaseClusterFromSnapshot if and only if a snapshotIdentifier was supplied
\* and otherwise a DatabaseCluster whose credentials come from the secret; both
\* branches receive the same common cluster configuration.
C14_SnapshotIffSupplied ==
    (call.op = "createAuroraMySqlCluster" /\ ~outcome.threw) =>
        /\ IF Has(call.props, "snapshotIdentifier")
           THEN OneCluster("DatabaseClusterFromSnapshot")
           ELSE /\ OneCluster("DatabaseCluster")
                /\ outcome.value.cluster.credentials = CredentialsFromSecret(outcome.value.secret)
        /\ SameCommonConfiguration

\* C14 amended: as C14, the restore-from-snapshot cluster being created if and
\* only if a non-empty snapshotIdentifier was supplied; an empty snapshot
\* identifier gives a fresh DatabaseCluster.
C14_SnapshotIffNonEmpty ==
    (call.op = "createAuroraMySqlCluster" /\ ~outcome.threw) =>
        /\ IF Has(call.props, "snapshotIdentifier") /\ call.props.snapshotIdentifier # ""
           THEN /\ OneCluster("DatabaseClusterFromSnapshot")
                /\ outcome.value.cluster.snapshotIdentifier = call.props.snapshotIdentifier
           ELSE /\ OneCluster("DatabaseCluster")
                /\ outcome.value.cluster.credentials = CredentialsFromSecret(outcome.value.secret)
        /\ SameCommonConfiguration

C14_Witness ==
    /\ call.op = "createAuroraMySqlCluster"
    /\ ~outcome.threw
    /\ Has(call.props, "snapshotIdentifier")
    /\ call.props.snapshotIdentifier = "my-snapshot"
    /\ Has(call.props, "existingSecret")
    /\ OneCluster("DatabaseClusterFromSnapshot")

\* C15: on the restore-from-snapshot path with no snapshotCredentials supplied,
\* the cluster's credentials come from the secret that the call returns as
\* ClusterResources.secret.
C15_SnapshotCredentialsFromReturnedSecret ==
    (/\ call.op = "createAuroraMySqlCluster"
     /\ ~outcome.threw
     /\ outcome.value.cluster.kind = "DatabaseClusterFromSnapshot"
     /\ ~Has(call.props, "snapshotCredentials")) =>
        /\ Has(outcome.value.cluster.snapshotCredentials, "secret")
        /\ outcome.value.cluster.snapshotCredentials.secret = outcome.value.secret

----------------------------------------------------------------------------
(* Properties of monitoring and Database Insights.                         *)

EnhancedMonitoringRequested(props) ==
    SuppliedOr(props, "enableClusterLevelEnhancedMonitoring", FALSE)

\* C16: with enableClusterLevelEnhancedMonitoring true the cluster's
\* monitoringInterval is the caller's when one is supplied and 60 seconds
\* otherwise; with enhanced monitoring false or omitted the monitoringInterval is
\* not set, even if the caller supplied one.
C16_MonitoringInterval ==
    (call.op = "createAuroraMySqlCluster" /\ ~outcome.threw) =>
        IF EnhancedMonitoringRequested(call.props)
        THEN /\ Has(outcome.value.cluster, "monitoringInterval")
             /\ outcome.value.cluster.monitoringInterval
                    = SuppliedOr(call.props, "monitoringInterval", [seconds |-> 60])
        ELSE ~Has(outcome.value.cluster, "monitoringInterval")

C16_Witness ==
    /\ call.op = "createAuroraMySqlCluster"
    /\ ~outcome.threw
    /\ EnhancedMonitoringRequested(call.props)
    /\ Has(call.props, "monitoringInterval")
    /\ call.props.monitoringInterval = [seconds |-> 0]
    /\ outcome.value.cluster.monitoringInterval = [seconds |-> 0]

\* C17: the cluster's performanceInsightRetention is MONTHS_15 if and only if
\* databaseInsightsMode is ADVANCED; with the mode STANDARD or omitted the
\* retention is not set.
C17_RetentionIffAdvanced ==
    (call.op = "createAuroraMySqlCluster" /\ ~outcome.threw) =>
        IF SuppliedOr(call.props, "databaseInsightsMode", "standard") = "advanced"
        THEN /\ Has(outcome.value.cluster, "performanceInsightRetention")
             /\ outcome.value.cluster.performanceInsightRetention = "MONTHS_15"
             /\ outcome.value.cluster.databaseInsightsMode = "advanced"
        ELSE ~Has(outcome.value.cluster, "performanceInsightRetention")

C17_Witness ==
    /\ call.op = "createAuroraMySqlCluster"
    /\ ~outcome.threw
    /\ Has(call.props, "databaseInsightsMode")
    /\ call.props.databaseInsightsMode = "advanced"
    /\ outcome.value.cluster.kind = "DatabaseClusterFromSnapshot"
    /\ outcome.value.cluster.performanceInsightRetention = "MONTHS_15"

----------------------------------------------------------------------------
(* Properties of selectSubnetsByIds.                                       *)

Elements(seq) == {seq[i] : i \in 1..Len(seq)}

SubnetIdsOf(subnets) == {subnets[i].subnetId : i \in 1..Len(subnets)}

\* C18: selectSubnetsByIds returns exactly the private subnets of the VPC whose
\* subnet ID is among subnetIds, each once: no public subnet, no subnet that was
\* not requested, no more than the VPC has private subnets, and the empty
\* selection when no requested ID matches.
C18_SelectedPrivateSubnets ==
    call.op = "selectSubnetsByIds" =>
        /\ ~outcome.threw
        /\ Elements(outcome.value.subnets)
               = {subnet \in Elements(call.vpc.privateSubnets) :
                     subnet.subnetId \in Elements(call.subnetIds)}
        /\ Cardinality(Elements(outcome.value.subnets)) = Len(outcome.value.subnets)
        /\ Elements(outcome.value.subnets) \cap Elements(call.vpc.publicSubnets) = {}
        /\ Len(outcome.value.subnets) <= Len(call.vpc.privateSubnets)
        /\ (Elements(call.subnetIds) \cap SubnetIdsOf(call.vpc.privateSubnets) = {})
               => outcome.value.subnets = <<>>

C18_Witness ==
    /\ call.op = "selectSubnetsByIds"
    /\ call.subnetIds = <<"subnet-9", "subnet-2", "subnet-2">>
    /\ SubnetIdsOf(call.vpc.privateSubnets) = {"subnet-1", "subnet-2"}
    /\ SubnetIdsOf(call.vpc.publicSubnets) = {"subnet-9"}
    /\ SubnetIdsOf(outcome.value.subnets) = {"subnet-2"}
    /\ Len(outcome.value.subnets) = 1

----------------------------------------------------------------------------
(* Properties of the storage encryption key.                               *)

KeysInScope == {i \in 1..Len(scope) : scope[i].kind = "Key"}

\* the call created one customer-managed key with the documented settings and
\* the cluster is encrypted with it
NewKeyEncryptsCluster ==
    /\ Cardinality(KeysInScope) = 1
    /\ \A i \in KeysInScope :
          /\ scope[i].enableKeyRotation
          /\ scope[i].removalPolicy = "RETAIN"
          /\ scope[i].pendingWindowDays = 30
          /\ scope[i].alias = "alias/" \o call.props.clusterName \o "-aurora-key"
          /\ Has(outcome.value.cluster, "storageEncryptionKey")
          /\ outcome.value.cluster.storageEncryptionKey = scope[i]
    /\ outcome.value.cluster.storageEncrypted

----------------------------------------------------------------------------
(* Frame of the configuration object.                                      *)

PropsOps ==
    {"createAuroraMySqlCluster", "createClusterParameterGroup", "createInstanceParameterGroup",
     "createClusterReaders", "createAuroraSecurityGroup"}

----------------------------------------------------------------------------
(* Properties of the ingress rules.                                        *)

\* cidr ends in /N with N >= 16
HasPrefixAtLeast16(cidr) ==
    \E i \in 1..Len(cidr) : HasPrefixSuffix(cidr, i) /\ PrefixLength(cidr, i) >= 16

\* the rules that createAuroraSecurityGroup added after the rule of the VPC CIDR
EntryRules(sg) == SubSeq(sg.ingress, 2, Len(sg.ingress))

----------------------------------------------------------------------------
(* Properties of a supplied parameter-group name.                          *)

GroupOps == {"createClusterParameterGroup", "createInstanceParameterGroup"}

GroupField(op) ==
    IF op = "createClusterParameterGroup" THEN "clusterParameters" ELSE "instanceParameters"

GroupSegment(op) ==
    IF op = "createClusterParameterGroup" THEN "-cluster-" ELSE "-instance-"

SuppliedName(props, field) == ParameterConfig(props, field).name

\* C30 as stated: a supplied clusterParameters.name (instanceParameters.name)
\* is the name of the created parameter group, exactly as supplied; the
\* derivation is applied only when the name is absent.
C30_SuppliedNameExact ==
    (call.op \in GroupOps /\ ~NoNameSupplied(call.props, GroupField(call.op))) =>
        outcome.value.name = SuppliedName(call.props, GroupField(call.op))

\* C30 amended: a supplied non-empty name, with every "." replaced by "-", is
\* the name of the created parameter group and the derived name is not used; an
\* absent or empty name gives the derived name.
C30_SuppliedNameDotsReplaced ==
    call.op \in GroupOps =>
        IF /\ ~NoNameSupplied(call.props, GroupField(call.op))
           /\ SuppliedName(call.props, GroupField(call.op)) # ""
        THEN DotsReplaced(outcome.value.name, SuppliedName(call.props, GroupField(call.op)))
        ELSE DotsReplaced(outcome.value.name,
                          DerivedName(call.props, GroupField(call.op), GroupSegment(call.op)))

C30_Witness ==
    /\ call.op = "createInstanceParameterGroup"
    /\ ~NoNameSupplied(call.props, "instanceParameters")
    /\ SuppliedName(call.props, "instanceParameters") = "custom.params"
    /\ outcome.value.name = "custom-params"

----------------------------------------------------------------------------
(* Properties of createResolverEndpoint.                                   *)

\* the endpoint has exactly count IP addresses, each from a different private
\* subnet of the VPC
AddressesFromDistinctPrivateSubnets(endpoint, vpc, count) ==
    /\ Len(endpoint.ipAddresses) = count
    /\ \A i \in 1..count : endpoint.ipAddresses[i].subnetId \in SubnetIdsOf(vpc.privateSubnets)
    /\ \A i, j \in 1..count :
          i # j => endpoint.ipAddresses[i].subnetId # endpoint.ipAddresses[j].subnetId

\* C21: for every supplied ipAddressCount outside 2..10 createResolverEndpoint
\* throws "ipAddressCount must be between 2 and 10" with no construct created;
\* for every count inside the range (3 when omitted) the endpoint that is
\* created has exactly that many IP addresses, each from a different private
\* subnet of the VPC.
C21_IpAddressCountChecked ==
    call.op = "createResolverEndpoint" =>
        /\ (Has(call.props, "ipAddressCount")
                /\ (call.props.ipAddressCount < 2 \/ call.props.ipAddressCount > 10)) =>
               /\ outcome.threw
               /\ outcome.message = "ipAddressCount must be between 2 and 10"
               /\ scope = <<>>
        /\ ~outcome.threw =>
               AddressesFromDistinctPrivateSubnets(outcome.value.endpoint, call.props.vpc,
                                                   SuppliedOr(call.props, "ipAddressCount", 3))

----------------------------------------------------------------------------
(* Properties of createPublicHostedZone and createAcmCertificate.          *)

DelegationError == "delegationAccountIds must be provided when enableCrossAccountDelegation is true"

\* enableCrossAccountDelegation was supplied as true
DelegationRequested(props) ==
    Has(props, "enableCrossAccountDelegation") /\ props.enableCrossAccountDelegation = TRUE

\* delegationAccountIds is absent or is the empty list
AccountIdsMissing(props) ==
    ~Has(props, "delegationAccountIds") \/ props.delegationAccountIds = <<>>

\* C22: createPublicHostedZone throws "delegationAccountIds must be provided
\* when enableCrossAccountDelegation is true" whenever delegation is enabled
\* and delegationAccountIds is absent or empty; when the call succeeds, the
\* returned delegationRole is defined exactly when delegation is enabled.
C22_DelegationIdsRequired ==
    call.op = "createPublicHostedZone" =>
        /\ (DelegationRequested(call.props) /\ AccountIdsMissing(call.props)) =>
               (outcome.threw /\ outcome.message = DelegationError)
        /\ ~outcome.threw =>
               (Has(outcome.value, "delegationRole") <=> DelegationRequested(call.props))

C22_Witness ==
    /\ call.op = "createPublicHostedZone"
    /\ DelegationRequested(call.props)
    /\ ~AccountIdsMissing(call.props)
    /\ call.props.delegationAccountIds = <<"111111111111", "222222222222">>
    /\ ~outcome.threw
    /\ Has(outcome.value, "delegationRole")
    /\ Len(outcome.value.delegationRole.assumedBy) = 2

\* C23: when delegationRoleName is not specified, the delegation role that
\* createPublicHostedZone creates is named "{zoneName}-delegation-role", with
\* zoneName exactly as the caller supplied it.
C23_DefaultRoleNameVerbatim ==
    (/\ call.op = "createPublicHostedZone"
     /\ ~outcome.threw
     /\ Has(outcome.value, "delegationRole")
     /\ ~Has(call.props, "delegationRoleName")) =>
        outcome.value.delegationRole.roleName = call.props.zoneName \o "-delegation-role"

\* C29: when createPublicHostedZone or createAcmCertificate fails its
\* required-configuration check, the error is raised before any construct (the
\* hosted zone, the primary certificate, its output) was added to the scope.
C29_NoConstructBeforeConfigurationError ==
    (call.op \in {"createPublicHostedZone", "createAcmCertificate"} /\ outcome.threw) =>
        scope = <<>>

----------------------------------------------------------------------------
(* Properties of the CodeArtifact access policies.                         *)

\* the principals of the access policy of a CodeArtifact construct
AllowedPrincipals(construct) == construct.permissionsPolicyDocument.Statement[1].Principal.AWS

\* the principals are the root ARNs of the listed accounts, one per entry
RootArnPerEntry(principals, accounts) ==
    /\ Len(principals) = Len(accounts)
    /\ \A i \in 1..Len(accounts) :
          principals[i] = "arn:aws:iam::" \o accounts[i] \o ":root"

\* C24: in the access policies built by createCodeArtifactDomain and
\* createCodeArtifactRepository, a supplied allowedAccounts makes the allowed
\* principals exactly the root ARNs of the listed accounts, one per entry and
\* no wildcard; the wildcard principal "*" is used only when allowedAccounts
\* is omitted.
C24_PrincipalsAreListedAccounts ==
    call.op \in {"createCodeArtifactDomain", "createCodeArtifactRepository"} =>
        /\ Has(call.props, "allowedAccounts") =>
               /\ RootArnPerEntry(AllowedPrincipals(outcome.value), call.props.allowedAccounts)
               /\ "*" \notin Elements(AllowedPrincipals(outcome.value))
        /\ "*" \in Elements(AllowedPrincipals(outcome.value)) =>
               ~Has(call.props, "allowedAccounts")

----------------------------------------------------------------------------
(* Properties of the ConfigResolver classes.                               *)

ConfigOps ==
    {"getMySqlDevConfig", "getMySqlProdConfig", "getPostgresDevConfig", "getPostgresProdConfig",
     "getCloudFrontDevConfig", "getCloudFrontProdConfig", "hasLocalConfig"}

\* the last call was hasLocalConfig() of the class cls
LastHasLocalConfig(lastCall, cls) ==
    lastCall.op = "hasLocalConfig" /\ lastCall.cls = cls

\* C25: over any sequence of calls of the public methods of a ConfigResolver
\* class, the local override module is loaded at most once, on the first call:
\* a public method leaves the class loaded, and once it is loaded the cached
\* local configuration never changes again, whatever happens to the module
\* file, so hasLocalConfig returns the same value on every call and a first
\* load that failed is never retried.
C25_LocalModuleLoadedOnce ==
    [][\A cls \in ConfigResolvers :
          /\ localConfigLoaded[cls] =>
                (localConfigLoaded'[cls] /\ localConfig'[cls] = localConfig[cls])
          /\ (call'.op \in ConfigOps /\ call'.cls = cls) => localConfigLoaded'[cls]
          /\ LastHasLocalConfig(call', cls) =>
                outcome'.value = (localConfig'[cls] # Undefined)
          /\ (LastHasLocalConfig(call, cls) /\ LastHasLocalConfig(call', cls)) =>
                outcome'.value = outcome.value]_vars

C25_Witness ==
    /\ call.op = "hasLocalConfig"
    /\ call.cls = "aurora"
    /\ outcome.value = FALSE
    /\ localConfigLoaded["aurora"]
    /\ localConfig["aurora"] = Undefined
    /\ Has(environmentsLocal, "LOCAL_CONFIG")

AuroraGetters ==
    [getMySqlDevConfig |-> "MYSQL_DEV_CONFIG",
     getMySqlProdConfig |-> "MYSQL_PROD_CONFIG",
     getPostgresDevConfig |-> "POSTGRES_DEV_CONFIG",
     getPostgresProdConfig |-> "POSTGRES_PROD_CONFIG"]

\* value is base in every field other than vpcId and subnetIds
SameButVpcAndSubnets(value, base) ==
    /\ DOMAIN value = DOMAIN base
    /\ \A f \in DOMAIN base \ {"vpcId", "subnetIds"} : value[f] = base[f]

\* C26: every configuration that a getter of the Aurora ConfigResolver returns
\* equals its base configuration in every field except vpcId and subnetIds,
\* which are those of the local override when a local configuration was
\* loaded; with no local configuration the base configuration is returned
\* unchanged; the shared base configuration objects are never modified.
C26_OnlyVpcAndSubnetsOverridden ==
    /\ baseConfigs = BaseConfigs
    /\ call.op \in DOMAIN AuroraGetters =>
          /\ SameButVpcAndSubnets(outcome.value, BaseConfigs[AuroraGetters[call.op]])
          /\ IF localConfig["aurora"] # Undefined
             THEN /\ outcome.value.vpcId = localConfig["aurora"].vpcId
                  /\ outcome.value.subnetIds = localConfig["aurora"].subnetIds
             ELSE outcome.value = BaseConfigs[AuroraGetters[call.op]]

C26_Witness ==
    /\ call.op = "getMySqlProdConfig"
    /\ outcome.value.vpcId = "vpc-12345"
    /\ outcome.value.subnetIds = <<"subnet-1", "subnet-2">>
    /\ outcome.value.clusterName = "aurora-mysql-prod"
    /\ baseConfigs["MYSQL_PROD_CONFIG"].vpcId = PlaceholderVpcId

----------------------------------------------------------------------------
(* Properties of resolveAccount.                                           *)

\* the AWS_ACCOUNT_{env} variable is set to a non-empty value
EnvironmentVariableSet(processEnv, env) ==
    Has(processEnv, "AWS_ACCOUNT_" \o env) /\ processEnv["AWS_ACCOUNT_" \o env] # ""

\* the local module exists and has an entry for env that is not the placeholder
LocalEntryAvailable(accountsLocal, env) ==
    /\ accountsLocal # ModuleAbsent
    /\ Has(accountsLocal, "AccountLocal")
    /\ Has(accountsLocal.AccountLocal, env)
    /\ accountsLocal.AccountLocal[env] \notin {"", "000000000000"}

====
